---- MODULE Spec2Model ----
(***************************************************************************)
(* Dictation-Manager: the comparison engine of utils.ts (tokenize,         *)
(* cleanWord, getLevenshteinDistance, getLetterAccuracy, calculateDiff,    *)
(* calculateAccuracy) as a state machine.                                  *)
(*                                                                         *)
(* A JavaScript string is modelled as a sequence of one-character strings, *)
(* so "a b" is <<"a", " ", "b">> and the empty string is <<>>.  A number   *)
(* of type double is modelled bit by bit where its rounding can be seen    *)
(* (calculateAccuracy) and as an exact ratio where it cannot               *)
(* (getLetterAccuracy, see there).                                         *)
(***************************************************************************)
EXTENDS Integers, Sequences, FiniteSets, TLC

VARIABLES
    pc,             \* where the run is: "call", "backtrack", "done", "scored"; "acc"; "clean", "cleaned"; "tok", "tokenized";
                    \* "mount", "sessions1", "properNouns1", "notes1", "sessions2", "properNouns2", "notes2" (the effects of App); "app"; "crashed" (a render of App has thrown)
    userText,       \* argument userText of calculateDiff
    originalText,   \* argument originalText of calculateDiff
    properNouns,    \* argument properNouns of calculateDiff (a list of keys)
    userWords,      \* const userWords = tokenize(userText)
    originalWords,  \* const originalWords = tokenize(originalText)
    dp,             \* the table dp, dp[i+1][j+1] in the model is dp[i][j] in the code
    i,              \* let i of the backtracking loop
    j,              \* let j of the backtracking loop
    rawParts,       \* const rawParts of the backtracking loop
    branch,         \* the branch the last iteration of the loop took
    diffs,          \* the DiffPart[] returned by calculateDiff (DiffViewer's diffs)
    accuracy,       \* calculateAccuracy(diffs) (DiffViewer's accuracy)
    word,           \* argument of cleanWord
    clean,          \* result of cleanWord(word)
    inputText,      \* argument of tokenize
    tokens,         \* result of tokenize(inputText)
    registered,     \* the argument of the last call of onAddProperNoun / handleAddProperNoun
    calls,          \* the calls of calculateDiff that have returned, in order: arguments and result
    sessions,       \* App: the state sessions (a list of Session records)
    notes,          \* App: the state notes (a list of Note records)
    storage,        \* localStorage: what the three keys hold
    startStorage,   \* what localStorage held when the application was started
    currentView,    \* App: the state currentView
    activeSessionId,\* App: the state activeSessionId
    reader,         \* the FileReader of handleFileChange while its onload is pending
    handler,        \* the handler, effect or callback that ran last, with what it was given
    stage,          \* SessionDetail: the state stage
    currentAttemptId, \* SessionDetail: the state currentAttemptId
    isEditingOriginal, \* SessionDetail: the state isEditingOriginal
    dictationInput, \* SessionDetail: the state dictationInput
    originalInput,  \* SessionDetail: the state originalInput
    errorMsg,       \* SessionDetail: the state errorMsg
    page            \* Home: the state page

\* the state of App, SessionDetail and Home other than properNouns and storage
appStates == <<sessions, notes, startStorage, currentView, activeSessionId,
               reader, handler, stage, currentAttemptId, isEditingOriginal,
               dictationInput, originalInput, errorMsg, page>>

\* the state of App, SessionDetail and Home other than properNouns
appVars == <<sessions, notes, storage, startStorage, currentView, activeSessionId,
             reader, handler, stage, currentAttemptId, isEditingOriginal,
             dictationInput, originalInput, errorMsg, page>>

\* the arguments, locals and results of the functions of utils.ts
engineVars == <<userText, originalText, userWords, originalWords,
                dp, i, j, rawParts, branch, diffs, accuracy, word, clean,
                inputText, tokens, registered, calls>>

vars == <<pc, properNouns, engineVars, appVars>>

---------------------------------------------------------------------------
(* Bounds of the model. *)

\* most tokens in a generated user or reference text
MaxTokens == 2
\* longest DiffPart[] handed to calculateAccuracy on its own
MaxParts == 101
\* longest word handed to cleanWord on its own
MaxWordLen == 3
\* longest text handed to tokenize on its own
MaxTextLen == 5
\* most calls of calculateDiff that one run of the viewer makes
MaxCalls == 4
\* longest user token of the calls that try the match test on its own
MaxKeyLen == 5
\* most tokens of the user text and of the reference text in the calls that
\* are repeated with one more proper noun
MaxUserTokens == 2
MaxReferenceTokens == 3
\* most proper nouns registered between such calls
MaxRegistrations == 1
\* most sessions handleCreateSession is called for on top of a full page or an empty list
MaxSessions == 2
\* most attempts saved in one session
MaxAttempts == 2
\* most notes handleSaveNote makes
MaxNotes == 1

---------------------------------------------------------------------------
(* Characters. *)

UpperChars == <<"A", "B", "C", "D", "E", "F", "G", "H", "I", "J", "K", "L", "M",
                "N", "O", "P", "Q", "R", "S", "T", "U", "V", "W", "X", "Y", "Z">>
LowerChars == <<"a", "b", "c", "d", "e", "f", "g", "h", "i", "j", "k", "l", "m",
                "n", "o", "p", "q", "r", "s", "t", "u", "v", "w", "x", "y", "z">>
DigitChars == <<"0", "1", "2", "3", "4", "5", "6", "7", "8", "9">>

Range(s) == {s[k] : k \in 1..Len(s)}

\* the characters the class \s of a regular expression matches, which are the
\* ones trim() removes: tab, line feed, vertical tab, form feed, carriage
\* return, space, no-break space, the byte order mark, the line and paragraph
\* separators and the space separators of Unicode.  A character a string of
\* this module cannot hold is written as its code point.
WhiteSpace ==
    {" ", "\t", "\n", "\r", "\f", "U+000B", "U+00A0", "U+1680",
     "U+2000", "U+2001", "U+2002", "U+2003", "U+2004", "U+2005", "U+2006",
     "U+2007", "U+2008", "U+2009", "U+200A", "U+2028", "U+2029", "U+202F",
     "U+205F", "U+3000", "U+FEFF"}

\* the class \w of a regular expression without the u flag: [A-Za-z0-9_]
IsWordChar(c) == c \in Range(UpperChars) \cup Range(LowerChars) \cup Range(DigitChars) \cup {"_"}

\* String.prototype.toLowerCase on one character; of the model's characters
\* only A-Z have a different lower case
ToLowerChar(c) ==
    IF c \in Range(UpperChars)
    THEN LowerChars[CHOOSE k \in 1..Len(UpperChars) : UpperChars[k] = c]
    ELSE c

---------------------------------------------------------------------------
(* tokenize: text.trim().split(/\s+/).filter(t => t.length > 0) *)

RECURSIVE TrimStart(_)
TrimStart(s) == IF s # <<>> /\ Head(s) \in WhiteSpace THEN TrimStart(Tail(s)) ELSE s

RECURSIVE TrimEnd(_)
TrimEnd(s) ==
    IF s # <<>> /\ s[Len(s)] \in WhiteSpace THEN TrimEnd(SubSeq(s, 1, Len(s) - 1)) ELSE s

Trim(s) == TrimEnd(TrimStart(s))

\* s.split(/\s+/): the pieces of s between the maximal runs of white space;
\* the split of the empty string is the one empty piece
RECURSIVE SplitFrom(_, _)
SplitFrom(s, piece) ==
    IF s = <<>> THEN <<piece>>
    ELSE IF Head(s) \in WhiteSpace
         THEN <<piece>> \o SplitFrom(TrimStart(s), <<>>)
         ELSE SplitFrom(Tail(s), Append(piece, Head(s)))

SplitWhiteSpace(s) == SplitFrom(s, <<>>)

\* the filter t => t.length > 0
AnyToken(t) == TRUE
NonEmptyToken(t) == Len(t) > 0

tokenize(text) == SelectSeq(SplitWhiteSpace(Trim(text)), NonEmptyToken)

---------------------------------------------------------------------------
(* cleanWord: word.replace(/[^\w]|_/g, '').toLowerCase() *)

\* the characters the pattern /[^\w]|_/ matches: every character outside \w, and the underscore
CleanPatternKeepsUnderscore(c) == ~IsWordChar(c)
CleanPattern(c) == ~IsWordChar(c) \/ c = "_"

RECURSIVE RemoveCleanPattern(_)
RemoveCleanPattern(s) ==
    IF s = <<>> THEN <<>>
    ELSE IF CleanPattern(Head(s)) THEN RemoveCleanPattern(Tail(s))
         ELSE <<Head(s)>> \o RemoveCleanPattern(Tail(s))

ToLowerCase(s) == [k \in 1..Len(s) |-> ToLowerChar(s[k])]

cleanWord(w) == ToLowerCase(RemoveCleanPattern(w))

---------------------------------------------------------------------------
(* getLevenshteinDistance and getLetterAccuracy *)

Min2(a, b) == IF a <= b THEN a ELSE b
Max2(a, b) == IF a >= b THEN a ELSE b

\* matrix[x][y] of the code, for the prefixes a[1..x] and b[1..y]
RECURSIVE LevMatrix(_, _, _, _)
LevMatrix(a, b, x, y) ==
    IF y = 0 THEN x
    ELSE IF x = 0 THEN y
    ELSE LET cost == IF a[x] = b[y] THEN 0 ELSE 1
         IN  Min2(Min2(LevMatrix(a, b, x - 1, y) + 1,
                       LevMatrix(a, b, x, y - 1) + 1),
                  LevMatrix(a, b, x - 1, y - 1) + cost)

getLevenshteinDistance(a, b) == LevMatrix(a, b, Len(a), Len(b))

\* 1 - distance / maxLength as the exact ratio num / den (1.0 when both words are empty)
getLetterAccuracyEmptyIsFull(word1, word2) ==
    LET maxLength == Max2(Len(word1), Len(word2))
    IN  IF Min2(Len(word1), Len(word2)) = 0 THEN [num |-> 1, den |-> 1]
        ELSE [num |-> maxLength - getLevenshteinDistance(word1, word2), den |-> maxLength]
getLetterAccuracy(word1, word2) ==
    LET maxLength == Max2(Len(word1), Len(word2))
    IN  IF maxLength = 0 THEN [num |-> 1, den |-> 1]
        ELSE [num |-> maxLength - getLevenshteinDistance(word1, word2), den |-> maxLength]

\* accuracy >= 0.60.  In doubles the test is 1 - fl(d / L) >= fl(0.6); the only
\* ratio on the boundary is d / L = 2 / 5, where 1 - fl(0.4) is fl(0.6) itself, and
\* every other ratio of lengths a word can have is further from 0.6 than the
\* rounding error, so the test is the exact 5 * num >= 3 * den.
AtLeastThresholdEighty(acc) == 5 * acc.num >= 4 * acc.den
AtLeastThresholdExclusive(acc) == 5 * acc.num > 3 * acc.den
AtLeastThreshold(acc) == 5 * acc.num >= 3 * acc.den

---------------------------------------------------------------------------
(* Arithmetic on doubles, as calculateAccuracy uses it.  A double x >= 0 is *)
(* [hi, mid, lo, exp]: its 53-bit significand is hi * 2^36 + mid * 2^18 +   *)
(* lo with 2^16 <= hi < 2^17 and mid, lo < 2^18, and its value is the       *)
(* significand times 2^exp.  Zero is [0, 0, 0, 0].  The three limbs keep    *)
(* every intermediate number below 2^31.                                    *)

RECURSIVE Pow2(_)
Pow2(k) == IF k = 0 THEN 1 ELSE 2 * Pow2(k - 1)

\* the number of bits of n
RECURSIVE BitLen(_)
BitLen(n) == IF n = 0 THEN 0 ELSE 1 + BitLen(n \div 2)

\* a limb holds 18 bits, the top limb 17
Limb == Pow2(18)
TopLimb == Pow2(17)

DoubleZero == [hi |-> 0, mid |-> 0, lo |-> 0, exp |-> 0]

\* x with its significand increased by one unit in the last place
NextUp(x) ==
    IF x.lo + 1 < Limb THEN [x EXCEPT !.lo = x.lo + 1]
    ELSE IF x.mid + 1 < Limb THEN [x EXCEPT !.lo = 0, !.mid = x.mid + 1]
    ELSE IF x.hi + 1 < TopLimb THEN [x EXCEPT !.lo = 0, !.mid = 0, !.hi = x.hi + 1]
    ELSE [hi |-> TopLimb \div 2, mid |-> 0, lo |-> 0, exp |-> x.exp + 1]

\* round to nearest, ties to even: x is the significand cut to 53 bits, guard the
\* first bit cut off, sticky whether any later bit cut off is set
RoundNearestEven(x, guard, sticky) ==
    IF guard = 1 /\ (sticky \/ (x.lo % 2) = 1) THEN NextUp(x) ELSE x

\* the least e with m * 2^e >= t
RECURSIVE LeadShift(_, _)
LeadShift(m, t) == IF m >= t THEN 0 ELSE 1 + LeadShift(2 * m, t)

\* the double m / t, for integers 0 <= m <= t and 0 < t < 2^12: the binary
\* expansion of m / t by long division, 53 bits of it, rounded
DoubleDiv(m, t) ==
    IF m = 0 THEN DoubleZero
    ELSE LET e     == LeadShift(m, t)
             r0    == m * Pow2(e) - t
             hi    == (TopLimb \div 2) + ((r0 * (TopLimb \div 2)) \div t)
             r1    == (r0 * (TopLimb \div 2)) % t
             mid   == (r1 * Limb) \div t
             r2    == (r1 * Limb) % t
             lo    == (r2 * Limb) \div t
             r3    == (r2 * Limb) % t
             guard == IF 2 * r3 >= t THEN 1 ELSE 0
             r4    == (2 * r3) - (guard * t)
         IN  RoundNearestEven([hi |-> hi, mid |-> mid, lo |-> lo, exp |-> 0 - e - 52],
                              guard, r4 > 0)

\* the double x * c, for an integer 0 < c < 2^7: the exact product, rounded
DoubleTimes(x, c) ==
    IF x.hi = 0 THEN DoubleZero
    ELSE LET p0   == x.lo * c
             p1   == (x.mid * c) + (p0 \div Limb)
             p2   == (x.hi * c) + (p1 \div Limb)
             l0   == p0 % Limb
             l1   == p1 % Limb
             s    == BitLen(p2) - 17
             cut  == l0 % Pow2(s)
             kept == [hi  |-> p2 \div Pow2(s),
                      mid |-> (l1 \div Pow2(s)) + ((p2 % Pow2(s)) * Pow2(18 - s)),
                      lo  |-> (l0 \div Pow2(s)) + ((l1 % Pow2(s)) * Pow2(18 - s)),
                      exp |-> x.exp + s]
         IN  IF s = 0 THEN kept
             ELSE RoundNearestEven(kept, cut \div Pow2(s - 1), cut % Pow2(s - 1) > 0)

\* the number of bits of x before the binary point (negative when x < 1/2)
IntegerBits(x) == 53 + x.exp

\* Math.round(x) for 0 <= x < 2^16: the nearest integer, a half rounded up
MathRound(x) ==
    IF x.hi = 0 \/ IntegerBits(x) < 0 THEN 0
    ELSE (x.hi \div Pow2(17 - IntegerBits(x)))
         + ((x.hi \div Pow2(17 - IntegerBits(x) - 1)) % 2)

---------------------------------------------------------------------------
(* calculateAccuracy *)

IsMatchPart(d) == d.type = "match"
IsNotAddPart(d) == d.type # "add"

CountMatches(ds) == Len(SelectSeq(ds, IsMatchPart))

calculateAccuracyCountsNotAdd(ds) ==
    LET totalWords == Len(ds)
    IN  IF totalWords = 0 THEN 100
        ELSE MathRound(DoubleTimes(DoubleDiv(Len(SelectSeq(ds, IsNotAddPart)), totalWords), 100))
calculateAccuracy(ds) ==
    LET totalWords == Len(ds)
        matches    == CountMatches(ds)
    IN  IF totalWords = 0 THEN 100
        ELSE MathRound(DoubleTimes(DoubleDiv(matches, totalWords), 100))

---------------------------------------------------------------------------
(* calculateDiff *)

\* Array.prototype.includes on the list of proper nouns
Includes(list, x) == \E k \in 1..Len(list) : list[k] = x

\* isMatch of the loop that fills the table, for the raw words uRaw and oRaw
IsMatchFillRaw(uRaw, oRaw, nouns) == uRaw = oRaw
IsMatchFill(uRaw, oRaw, nouns) ==
    LET u == cleanWord(uRaw)
        o == cleanWord(oRaw)
    IN  IF u = o THEN TRUE
        ELSE Includes(nouns, o) /\ AtLeastThreshold(getLetterAccuracy(u, o))

\* row i of dp from row i - 1 (prev), for the user word uRaw; row[jj + 1] is dp[i][jj]
RECURSIVE FillRow(_, _, _, _, _)
FillRow(prev, uRaw, oWords, nouns, row) ==
    IF Len(row) = Len(oWords) + 1 THEN row
    ELSE LET jj == Len(row)
             cell == IF IsMatchFill(uRaw, oWords[jj], nouns)
                     THEN prev[jj] + 1
                     ELSE Max2(prev[jj + 1], row[jj])
         IN  FillRow(prev, uRaw, oWords, nouns, Append(row, cell))

RECURSIVE FillRows(_, _, _, _)
FillRows(uWords, oWords, nouns, rows) ==
    IF Len(rows) = Len(uWords) + 1 THEN rows
    ELSE LET ii == Len(rows)
         IN  FillRows(uWords, oWords, nouns,
                      Append(rows, FillRow(rows[ii], uWords[ii], oWords, nouns, <<0>>)))

\* the table after the two nested loops: rows 0..n of columns 0..m, row 0 all zero
FillTable(uWords, oWords, nouns) ==
    FillRows(uWords, oWords, nouns, <<[jj \in 1..(Len(oWords) + 1) |-> 0]>>)

\* dp[x][y] of the code
Dp(x, y) == dp[x + 1][y + 1]

\* isMatch of the backtracking loop at the current i and j
IsMatchBackRaw ==
    /\ i > 0
    /\ j > 0
    /\ userWords[i] = originalWords[j]
IsMatchBack ==
    /\ i > 0
    /\ j > 0
    /\ LET u == cleanWord(userWords[i])
           o == cleanWord(originalWords[j])
       IN  IF u = o THEN TRUE
           ELSE Includes(properNouns, o) /\ AtLeastThreshold(getLetterAccuracy(u, o))

\* the condition of the second branch: j > 0 && (i === 0 || dp[i][j - 1] >= dp[i - 1][j])
\* (|| does not evaluate its right side when the left is true: dp[-1] is never read)
RemoveConditionStrict == j > 0 /\ (IF i = 0 THEN TRUE ELSE Dp(i, j - 1) > Dp(i - 1, j))
RemoveConditionAlways == j > 0
RemoveConditionReversed == j > 0 /\ (IF i = 0 THEN TRUE ELSE Dp(i, j - 1) <= Dp(i - 1, j))
RemoveCondition == j > 0 /\ (IF i = 0 THEN TRUE ELSE Dp(i, j - 1) >= Dp(i - 1, j))

\* the condition of the third branch: i > 0 && (j === 0 || dp[i][j - 1] < dp[i - 1][j])
AddCondition == i > 0 /\ (IF j = 0 THEN TRUE ELSE Dp(i, j - 1) < Dp(i - 1, j))

\* the condition of the while loop: i > 0 || j > 0
LoopConditionBoth == i > 0 /\ j > 0
LoopCondition == IF i > 0 THEN TRUE ELSE j > 0

\* the parts the three branches put in front of rawParts
MatchPartOfUser(uRaw, oRaw) == [type |-> "match", value |-> uRaw]
MatchPart(uRaw, oRaw) == [type |-> "match", value |-> oRaw]
RemovePartOfUser(uRaw, oRaw) == [type |-> "remove", value |-> uRaw]
RemovePart(uRaw, oRaw) == [type |-> "remove", value |-> oRaw]
AddPartOfOriginal(uRaw, oRaw) == [type |-> "add", value |-> oRaw]
AddPart(uRaw, oRaw) == [type |-> "add", value |-> uRaw]

\* const rawParts: DiffPart[] = [] : every call starts its walk with a list of its own
LeftoverParts == rawParts
FreshParts == <<>>

\* rawParts.unshift(part): the part goes in front
Push(parts, part) == Append(parts, part)
Unshift(parts, part) == <<part>> \o parts

\* the map of the return statement, on one part
PostProcessPartKeeps(part) == part
PostProcessPartRemoveOnly(part) ==
    IF part.type = "remove" /\ cleanWord(part.value) = <<>>
    THEN [part EXCEPT !.type = "match"]
    ELSE part
PostProcessPart(part) ==
    IF part.type = "match" THEN part
    ELSE IF cleanWord(part.value) = <<>> THEN [part EXCEPT !.type = "match"]
    ELSE part

PostProcess(parts) == [k \in 1..Len(parts) |-> PostProcessPart(parts[k])]

---------------------------------------------------------------------------
(* The inputs the model draws the arguments of calculateDiff from. *)

RECURSIVE JoinWords(_, _)
JoinWords(words, sep) ==
    IF words = <<>> THEN <<>>
    ELSE IF Len(words) = 1 THEN words[1]
    ELSE words[1] \o sep \o JoinWords(Tail(words), sep)

SeqsUpTo(S, n) == UNION {[1..k -> S] : k \in 0..n}

\* the words of the generated texts: two plain words, a pure-punctuation token,
\* a word that differs from "a" in case and punctuation only, and a proper noun
\* with a misspelling of it
Vocabulary ==
    { <<"a">>, <<"b">>, <<",">>, <<"A", ".">>, <<"j", "o", "n">>, <<"J", "o", "h", "n">> }

GeneratedTexts == {JoinWords(ws, <<" ">>) : ws \in SeqsUpTo(Vocabulary, MaxTokens)}

Hello == <<"h", "e", "l", "l", "o">>
World == <<"w", "o", "r", "l", "d">>
Wrold == <<"w", "r", "o", "l", "d">>
Yesterday == <<"y", "e", "s", "t", "e", "r", "d", "a", "y">>

TextHelloWorld == JoinWords(<<Hello, World>>, <<" ">>)
TextHelloWrold == JoinWords(<<Hello, Wrold>>, <<" ">>)
TextHelloWorldSpaced == <<" ", "\t">> \o Hello \o <<"\n", " ">> \o World \o <<" ">>
TextHelloWorldShouted ==
    JoinWords(<<<<"H", "e", "l", "l", "o", ",">>, <<"W", "O", "R", "L", "D", "!">>>>, <<" ">>)
TextIMetJon == JoinWords(<<<<"I">>, <<"m", "e", "t">>, <<"j", "o", "n">>, Yesterday>>, <<" ">>)
TextIMetJohn ==
    JoinWords(<<<<"I">>, <<"m", "e", "t">>, <<"J", "o", "h", "n">>, Append(Yesterday, ".")>>, <<" ">>)
TextAAB == JoinWords(<<<<"a">>, <<"a">>, <<"b">>>>, <<" ">>)
TextAB == JoinWords(<<<<"a">>, <<"b">>>>, <<" ">>)

\* pairs <<userText, originalText>> beyond the generated ones: the examples of the
\* specification and texts with other white space
ExamplePairs ==
    { <<TextHelloWorld, TextHelloWorld>>,
      <<TextHelloWrold, TextHelloWorld>>,
      <<TextHelloWorldSpaced, TextHelloWorld>>,
      <<TextHelloWorldShouted, TextHelloWorld>>,
      <<TextHelloWorld, TextHelloWorldShouted>>,
      <<TextIMetJon, TextIMetJohn>>,
      <<TextAAB, TextAB>>,
      <<<<" ", "\n">>, <<"\t">>>> }

TextPairs == (GeneratedTexts \X GeneratedTexts) \cup ExamplePairs

KeyJohn == <<"j", "o", "h", "n">>

ProperNounLists == { <<>>, <<KeyJohn>> }

---------------------------------------------------------------------------
(* The data of App, SessionDetail and Home.  A Session is a record          *)
(* [id, createdAt, originalText, attempts], an Attempt a record             *)
(* [id, timestamp, userText], a Note a record [id, content, updatedAt].     *)
(* Texts are strings as above; ids of sessions and times are numbers; the   *)
(* ids generateId makes are model strings.                                  *)

\* originalText: null (a sequence that is no string: a string's elements are single characters)
Null == <<"null">>

\* currentAttemptId: null
NullId == "null"

\* activeSessionId: null
NoSession == 0 - 1

\* localStorage.getItem(key) gives null (the key is absent), a text JSON.parse
\* throws on, or the JSON text of a list
Absent == [kind |-> "absent", list |-> <<>>]
Unparsable == [kind |-> "unparsable", list |-> <<>>]
Json(list) == [kind |-> "json", list |-> list]

\* loadSessions, loadProperNouns, loadNotes on what the key holds:
\* data ? JSON.parse(data) : [], and [] when JSON.parse throws
loadSessions(item) == IF item.kind = "json" THEN item.list ELSE <<>>
loadProperNouns(item) == IF item.kind = "json" THEN item.list ELSE <<>>
loadNotes(item) == IF item.kind = "json" THEN item.list ELSE <<>>

\* saveSessions, saveProperNouns, saveNotes: localStorage.setItem(key, JSON.stringify(list))
saveSessions(store, list) == [store EXCEPT !.sessions = Json(list)]
saveProperNouns(store, list) == [store EXCEPT !.properNouns = Json(list)]
saveNotes(store, list) == [store EXCEPT !.notes = Json(list)]

\* the persist effect of properNouns, which runs when a render has a list
\* other than the one of the render before: saveProperNouns(properNouns)
persistProperNouns(store, before, after) ==
    IF after # before THEN saveProperNouns(store, after) ELSE store

\* the three useState([]) of App, before the mount effect has run
EmptyStorage == [sessions |-> Absent, properNouns |-> Absent, notes |-> Absent]

NoReader == [pending |-> FALSE, file |-> [kind |-> "none"], properNouns |-> <<>>, notes |-> <<>>]

NoHandler == [name |-> "none"]

\* App at rest on Home after its start on a storage without sessions and
\* notes: the persist effects have stored properNouns and notes, and no
\* sessions (saveSessions is guarded by sessions.length > 0)
AppAtRest ==
    /\ sessions = <<>>
    /\ notes = <<>>
    /\ startStorage = persistProperNouns(EmptyStorage, <<>>, properNouns)
    /\ storage = saveNotes(saveProperNouns(EmptyStorage, properNouns), notes)
    /\ currentView = "HOME"
    /\ activeSessionId = NoSession
    /\ reader = NoReader
    /\ handler = NoHandler
    /\ stage = "INPUT_DICTATION"
    /\ currentAttemptId = NullId
    /\ isEditingOriginal = FALSE
    /\ dictationInput = <<>>
    /\ originalInput = <<>>
    /\ errorMsg = FALSE
    /\ page = 1

---------------------------------------------------------------------------
(* The state machine of one call of calculateDiff, followed by the          *)
(* calculateAccuracy of its result as DiffViewer computes it.               *)

Init ==
    /\ pc = "call"
    /\ \E pair \in TextPairs : userText = pair[1] /\ originalText = pair[2]
    /\ properNouns \in ProperNounLists
    /\ userWords = <<>>
    /\ originalWords = <<>>
    /\ dp = <<>>
    /\ i = 0
    /\ j = 0
    /\ rawParts = <<>>
    /\ branch = "none"
    /\ diffs = <<>>
    /\ accuracy = 0
    /\ word = <<>>
    /\ clean = <<>>
    /\ inputText = <<>>
    /\ tokens = <<>>
    /\ registered = <<>>
    /\ calls = <<>>
    /\ AppAtRest

\* lines 207-244: tokenize both texts, fill dp, set i and j for the walk
Fill ==
    /\ pc = "call"
    /\ userWords' = tokenize(userText)
    /\ originalWords' = tokenize(originalText)
    /\ dp' = FillTable(userWords', originalWords', properNouns)
    /\ i' = Len(userWords')
    /\ j' = Len(originalWords')
    /\ rawParts' = FreshParts
    /\ pc' = "backtrack"
    /\ UNCHANGED <<userText, originalText, properNouns, branch, diffs, accuracy, word, clean,
                   inputText, tokens, registered, calls,
                   appVars>>

URaw == IF i > 0 THEN userWords[i] ELSE <<>>
ORaw == IF j > 0 THEN originalWords[j] ELSE <<>>

\* one iteration of the while loop that takes the first branch
BacktrackMatch ==
    /\ pc = "backtrack"
    /\ LoopCondition
    /\ IsMatchBack
    /\ rawParts' = Unshift(rawParts, MatchPart(URaw, ORaw))
    /\ i' = i - 1
    /\ j' = j - 1
    /\ branch' = "match"
    /\ UNCHANGED <<pc, userText, originalText, properNouns, userWords, originalWords,
                   dp, diffs, accuracy, word, clean, inputText, tokens, registered, calls,
                   appVars>>

\* one iteration that takes the second branch
BacktrackRemove ==
    /\ pc = "backtrack"
    /\ LoopCondition
    /\ ~IsMatchBack
    /\ RemoveCondition
    /\ rawParts' = Unshift(rawParts, RemovePart(URaw, ORaw))
    /\ j' = j - 1
    /\ branch' = "remove"
    /\ UNCHANGED <<pc, userText, originalText, properNouns, userWords, originalWords,
                   dp, i, diffs, accuracy, word, clean, inputText, tokens, registered, calls,
                   appVars>>

\* one iteration that takes the third branch
BacktrackAdd ==
    /\ pc = "backtrack"
    /\ LoopCondition
    /\ ~IsMatchBack
    /\ ~RemoveCondition
    /\ AddCondition
    /\ rawParts' = Unshift(rawParts, AddPart(URaw, ORaw))
    /\ i' = i - 1
    /\ branch' = "add"
    /\ UNCHANGED <<pc, userText, originalText, properNouns, userWords, originalWords,
                   dp, j, diffs, accuracy, word, clean, inputText, tokens, registered, calls,
                   appVars>>

\* the loop has ended: lines 278-288, the map over rawParts that is returned
Return ==
    /\ pc = "backtrack"
    /\ ~LoopCondition
    /\ diffs' = PostProcess(rawParts)
    /\ calls' = Append(calls, [user |-> userText, original |-> originalText,
                                nouns |-> properNouns, result |-> diffs'])
    /\ pc' = "done"
    /\ UNCHANGED <<userText, originalText, properNouns, userWords, originalWords,
                   dp, i, j, rawParts, branch, accuracy, word, clean,
                   inputText, tokens, registered,
                   appVars>>

\* DiffViewer: accuracy = calculateAccuracy(diffs)
Score ==
    /\ pc = "done"
    /\ accuracy' = calculateAccuracy(diffs)
    /\ pc' = "scored"
    /\ UNCHANGED <<userText, originalText, properNouns, userWords, originalWords,
                   dp, i, j, rawParts, branch, diffs, word, clean,
                   inputText, tokens, registered, calls,
                   appVars>>

Next == Fill \/ BacktrackMatch \/ BacktrackRemove \/ BacktrackAdd \/ Return \/ Score

Spec == Init /\ [][Next]_vars

---------------------------------------------------------------------------
(* The match test of calculateDiff on its own: calls with one user token    *)
(* and one reference token, so that dp[1][1] is the test of the fill and    *)
(* the first branch of the walk is the test of the backtracking.  The user  *)
(* token is any word of up to MaxKeyLen letters, the reference token one of *)
(* a few words of one to five letters, and the proper-noun list is empty or *)
(* holds the key of one of the two.                                         *)

UserTokens == SeqsUpTo({"a", "B"}, MaxKeyLen) \ {<<>>}

ReferenceTokens ==
    { <<"b">>, <<"A", "b", ",">>, <<"a", "b", "a">>, <<"a", "b", "a", "b">>,
      <<"a", "b", "a", "b", "a">> }

InitMatch ==
    /\ pc = "call"
    /\ userText \in UserTokens
    /\ originalText \in ReferenceTokens
    /\ properNouns \in {<<>>, <<cleanWord(originalText)>>, <<cleanWord(userText)>>}
    /\ userWords = <<>>
    /\ originalWords = <<>>
    /\ dp = <<>>
    /\ i = 0
    /\ j = 0
    /\ rawParts = <<>>
    /\ branch = "none"
    /\ diffs = <<>>
    /\ accuracy = 0
    /\ word = <<>>
    /\ clean = <<>>
    /\ inputText = <<>>
    /\ tokens = <<>>
    /\ registered = <<>>
    /\ calls = <<>>
    /\ AppAtRest

SpecMatch == InitMatch /\ [][Next]_vars

---------------------------------------------------------------------------
(* calculateAccuracy on its own: DiffViewer rendered with a DiffPart[] of   *)
(* up to MaxParts parts, then rendered again with one more of its match     *)
(* parts replaced by an add or a remove part.                               *)

AllMatch(t) == [k \in 1..t |-> [type |-> "match", value |-> <<"w">>]]

InitAcc ==
    /\ pc = "acc"
    /\ diffs \in {AllMatch(t) : t \in 0..MaxParts}
    /\ accuracy = calculateAccuracy(diffs)
    /\ userText = <<>>
    /\ originalText = <<>>
    /\ properNouns = <<>>
    /\ userWords = <<>>
    /\ originalWords = <<>>
    /\ dp = <<>>
    /\ i = 0
    /\ j = 0
    /\ rawParts = <<>>
    /\ branch = "none"
    /\ word = <<>>
    /\ clean = <<>>
    /\ inputText = <<>>
    /\ tokens = <<>>
    /\ registered = <<>>
    /\ calls = <<>>
    /\ AppAtRest

\* the last match part becomes a part of type ty, the length stays; the parts
\* that are not match all have the one type ty, which keeps the sequences few
ReplaceMatch ==
    /\ pc = "acc"
    /\ CountMatches(diffs) > 0
    /\ \E ty \in {"add", "remove"} :
         /\ \A k \in 1..Len(diffs) : diffs[k].type \in {"match", ty}
         /\ diffs' = [diffs EXCEPT ![CountMatches(diffs)].type = ty]
    /\ accuracy' = calculateAccuracy(diffs')
    /\ UNCHANGED <<pc, userText, originalText, properNouns, userWords, originalWords,
                   dp, i, j, rawParts, branch, word, clean,
                   inputText, tokens, registered, calls,
                   appVars>>

NextAcc == ReplaceMatch

SpecAcc == InitAcc /\ [][NextAcc]_vars

---------------------------------------------------------------------------
(* cleanWord on its own, for every word of up to MaxWordLen characters      *)
(* over one character of each kind: a lower-case letter, an upper-case      *)
(* letter, a digit, the underscore, a punctuation mark, a letter outside    *)
(* ASCII.                                                                   *)

CleanAlphabet == {"a", "B", "7", "_", ".", "é"}

InitClean ==
    /\ pc = "clean"
    /\ word \in SeqsUpTo(CleanAlphabet, MaxWordLen)
    /\ clean = <<>>
    /\ userText = <<>>
    /\ originalText = <<>>
    /\ properNouns = <<>>
    /\ userWords = <<>>
    /\ originalWords = <<>>
    /\ dp = <<>>
    /\ i = 0
    /\ j = 0
    /\ rawParts = <<>>
    /\ branch = "none"
    /\ diffs = <<>>
    /\ accuracy = 0
    /\ inputText = <<>>
    /\ tokens = <<>>
    /\ registered = <<>>
    /\ calls = <<>>
    /\ AppAtRest

CleanWordCall ==
    /\ pc = "clean"
    /\ clean' = cleanWord(word)
    /\ pc' = "cleaned"
    /\ UNCHANGED <<userText, originalText, properNouns, userWords, originalWords,
                   dp, i, j, rawParts, branch, diffs, accuracy, word,
                   inputText, tokens, registered, calls,
                   appVars>>

NextClean == CleanWordCall

SpecClean == InitClean /\ [][NextClean]_vars

---------------------------------------------------------------------------
(* tokenize on its own, for every text of up to MaxTextLen characters over  *)
(* a letter, a punctuation mark and the three white-space characters.       *)

TokenAlphabet == {"a", ",", " ", "\r", "U+00A0"}

InitTok ==
    /\ pc = "tok"
    /\ inputText \in SeqsUpTo(TokenAlphabet, MaxTextLen)
    /\ tokens = <<>>
    /\ userText = <<>>
    /\ originalText = <<>>
    /\ properNouns = <<>>
    /\ userWords = <<>>
    /\ originalWords = <<>>
    /\ dp = <<>>
    /\ i = 0
    /\ j = 0
    /\ rawParts = <<>>
    /\ branch = "none"
    /\ diffs = <<>>
    /\ accuracy = 0
    /\ word = <<>>
    /\ clean = <<>>
    /\ registered = <<>>
    /\ calls = <<>>
    /\ AppAtRest

TokenizeCall ==
    /\ pc = "tok"
    /\ tokens' = tokenize(inputText)
    /\ pc' = "tokenized"
    /\ UNCHANGED <<userText, originalText, properNouns, userWords, originalWords,
                   dp, i, j, rawParts, branch, diffs, accuracy, word, clean,
                   inputText, registered, calls,
                   appVars>>

NextTok == TokenizeCall

SpecTok == InitTok /\ [][NextTok]_vars

---------------------------------------------------------------------------
(* App: the state properNouns and its handler handleAddProperNoun, called   *)
(* with any of a few words in either case.  The list starts as useState     *)
(* makes it, empty.  React renders App again after every call, so each call *)
(* reads the list the call before it left.                                  *)

\* the list setProperNouns leaves after handleAddProperNoun(w) on the list nouns
handleAddProperNounRaw(nouns, w) ==
    IF ~Includes(nouns, w) THEN Append(nouns, ToLowerCase(w)) ELSE nouns
handleAddProperNoun(nouns, w) ==
    LET lower == ToLowerCase(w)
    IN  IF ~Includes(nouns, lower) THEN Append(nouns, lower) ELSE nouns

NounWords ==
    { <<"a", "b">>, <<"A", "b">>, <<"A", "B">>, <<"c", "d">>, <<"C", "d">>,
      <<"e", "f">>, <<"E", "F">>, <<"g", "h">>, <<"i", "j">> }

InitApp ==
    /\ pc = "app"
    /\ properNouns = <<>>
    /\ registered = <<>>
    /\ userText = <<>>
    /\ originalText = <<>>
    /\ userWords = <<>>
    /\ originalWords = <<>>
    /\ dp = <<>>
    /\ i = 0
    /\ j = 0
    /\ rawParts = <<>>
    /\ branch = "none"
    /\ diffs = <<>>
    /\ accuracy = 0
    /\ word = <<>>
    /\ clean = <<>>
    /\ inputText = <<>>
    /\ tokens = <<>>
    /\ calls = <<>>
    /\ AppAtRest

HandleAddProperNoun ==
    /\ pc = "app"
    /\ \E w \in NounWords :
         /\ registered' = w
         /\ properNouns' = handleAddProperNoun(properNouns, w)
    /\ storage' = persistProperNouns(storage, properNouns, properNouns')
    /\ UNCHANGED <<pc, userText, originalText, userWords, originalWords,
                   dp, i, j, rawParts, branch, diffs, accuracy, word, clean,
                   inputText, tokens, calls,
                   appStates>>

NextApp == HandleAddProperNoun

SpecApp == InitApp /\ [][NextApp]_vars

---------------------------------------------------------------------------
(* DiffViewer as SessionDetail renders it in the review of an attempt: the  *)
(* diff and its accuracy are computed for the attempt's text, the session's *)
(* original text and App's properNouns; a remove part may offer the button  *)
(* "It's a proper noun", whose click calls handleAddProperNoun; the changed *)
(* list makes useMemo compute the diff again.  The specification of the    *)
(* viewer follows the handlers of SessionDetail.                            *)

\* const isKnownProper = properNouns.includes(clean)
IsKnownProper(cleanKey) == Includes(properNouns, cleanKey)

\* whether the part is rendered with the button: only the branch for
\* part.type === 'remove' has one, under !isKnownProper && clean.length > 1
ButtonOfferedAnyPart(part) ==
    /\ ~IsKnownProper(cleanWord(part.value))
    /\ Len(cleanWord(part.value)) > 1
ButtonOffered(part) ==
    /\ part.type = "remove"
    /\ ~IsKnownProper(cleanWord(part.value))
    /\ Len(cleanWord(part.value)) > 1

\* onClick={() => onAddProperNoun(clean)}
ClickArgument(part) == cleanWord(part.value)

TextB == <<"b">>
TextAJohnComma == JoinWords(<< <<"a">>, <<"J", "o", "h", "n">>, <<",">> >>, <<" ">>)

\* the attempts the viewer is shown for: <<attempt's userText, session's originalText>>,
\* neither of them empty
ViewerPairs ==
    { <<TextIMetJon, TextIMetJohn>>,
      <<TextHelloWrold, TextHelloWorld>>,
      <<TextB, TextAJohnComma>> }

\* a click on the button of part k: handleAddProperNoun(clean), and the
\* diff is computed again when the list has changed
AddProperNounClick ==
    /\ pc = "scored"
    /\ Len(calls) < MaxCalls
    /\ \E k \in 1..Len(diffs) :
         /\ ButtonOffered(diffs[k])
         /\ registered' = ClickArgument(diffs[k])
         /\ properNouns' = handleAddProperNoun(properNouns, ClickArgument(diffs[k]))
    /\ pc' = IF properNouns' # properNouns THEN "call" ELSE pc
    /\ storage' = persistProperNouns(storage, properNouns, properNouns')
    /\ UNCHANGED <<userText, originalText, userWords, originalWords,
                   dp, i, j, rawParts, branch, diffs, accuracy, word, clean,
                   inputText, tokens, calls,
                   appStates>>

---------------------------------------------------------------------------
(* Properties. *)

Returned == pc \in {"done", "scored"}

\* the values of the parts of ds whose type is in types, in order
ValuesOfTypes(ds, types) ==
    LET sel == SelectSeq(ds, LAMBDA d : d.type \in types)
    IN  [k \in 1..Len(sel) |-> sel[k].value]

Keys(words) == [k \in 1..Len(words) |-> cleanWord(words[k])]

HasPunctuationToken(words) == \E k \in 1..Len(words) : cleanWord(words[k]) = <<>>

\* C1 as stated: the values of the match and remove parts of the returned
\* sequence, in order, are exactly tokenize(originalText).
C1_MatchRemoveIsReference ==
    Returned =>
        ValuesOfTypes(diffs, {"match", "remove"}) = tokenize(originalText)

\* C1 as amended: the values of the parts the backtracking walk makes match or
\* remove (rawParts, before the punctuation post-processing), in order, are
\* exactly tokenize(originalText); and so are those of the returned sequence
\* when no user token is pure punctuation.
C1_RawMatchRemoveIsReference ==
    Returned =>
        /\ ValuesOfTypes(rawParts, {"match", "remove"}) = tokenize(originalText)
        /\ ~HasPunctuationToken(tokenize(userText)) =>
               ValuesOfTypes(diffs, {"match", "remove"}) = tokenize(originalText)

\* a call that returned a match and a remove part and reclassified an add part
C1_Witness ==
    /\ Returned
    /\ \E k \in 1..Len(rawParts) : rawParts[k].type = "match"
    /\ \E k \in 1..Len(rawParts) : rawParts[k].type = "remove"
    /\ \E k \in 1..Len(rawParts) : rawParts[k].type = "add" /\ diffs[k].type = "match"

\* C2 as stated: the values of the match and add parts of the returned
\* sequence, in order, are exactly tokenize(userText).
C2_MatchAddIsUser ==
    Returned =>
        ValuesOfTypes(diffs, {"match", "add"}) = tokenize(userText)

\* C2 as amended: the parts the backtracking walk makes match or add
\* (rawParts, before the punctuation post-processing) are as many as the
\* user's tokens, and the k-th of them is the k-th user token itself when it
\* is an add part and a reference token that the k-th user token matches
\* (equal normalized key, or fuzzy match of a registered proper noun) when it
\* is a match part.
C2_RawMatchAddAlignsWithUser ==
    Returned =>
        LET sel == SelectSeq(rawParts, LAMBDA d : d.type \in {"match", "add"})
            uw  == tokenize(userText)
        IN  /\ Len(sel) = Len(uw)
            /\ \A k \in 1..Len(sel) :
                 IF sel[k].type = "add"
                 THEN sel[k].value = uw[k]
                 ELSE /\ IsMatchFill(uw[k], sel[k].value, properNouns)
                      /\ \E q \in 1..Len(originalWords) : originalWords[q] = sel[k].value

\* a call that returned an add part and a match part whose value is not the
\* user's token
C2_Witness ==
    /\ Returned
    /\ \E k \in 1..Len(rawParts) : rawParts[k].type = "add"
    /\ \E k \in 1..Len(rawParts) :
         /\ rawParts[k].type = "match"
         /\ \A q \in 1..Len(userWords) : userWords[q] # rawParts[k].value

\* the normalized keys of the tokens that are not pure punctuation
NonPunctuationKeys(words) == SelectSeq(Keys(words), LAMBDA key : key # <<>>)

\* C3: when the two texts have the same sequence of non-empty keys once the
\* pure-punctuation tokens are dropped, every returned part is a match and the
\* accuracy is 100, wherever the punctuation tokens stand.
C3_PunctuationOnlyAllMatch ==
    (pc = "scored" /\ NonPunctuationKeys(userWords) = NonPunctuationKeys(originalWords)) =>
        /\ \A k \in 1..Len(diffs) : diffs[k].type = "match"
        /\ accuracy = 100

\* floor((200 * matches + total) / (2 * total)): 100 * matches / total rounded
\* to the nearest integer, a half rounded up
RoundHalfUpPercent(matches, total) == (200 * matches + total) \div (2 * total)

\* C4: calculateAccuracy is 100 for the empty sequence and otherwise
\* 100 * matches / total rounded half up, an integer between 0 and 100.
C4_AccuracyIsRoundHalfUp ==
    pc = "acc" =>
        /\ accuracy \in 0..100
        /\ accuracy = IF Len(diffs) = 0 THEN 100
                      ELSE RoundHalfUpPercent(CountMatches(diffs), Len(diffs))

Part(type, value) == [type |-> type, value |-> value]

HelloWroldCall ==
    /\ pc = "scored"
    /\ userText = TextHelloWrold
    /\ originalText = TextHelloWorld
    /\ properNouns = <<>>

\* C5 as stated: calculateDiff("hello wrold", "hello world", {}) is
\* match("hello"), remove("world"), add("wrold") and its accuracy is 50.
C5_HelloWroldRemoveThenAdd ==
    HelloWroldCall =>
        /\ diffs = <<Part("match", Hello), Part("remove", World), Part("add", Wrold)>>
        /\ accuracy = 50

\* C5 as amended: calculateDiff("hello wrold", "hello world", {}) is
\* match("hello"), add("wrold"), remove("world"), in that order, and its
\* accuracy is 33 (one match among three parts).
C5_HelloWroldAddThenRemove ==
    HelloWroldCall =>
        /\ diffs = <<Part("match", Hello), Part("add", Wrold), Part("remove", World)>>
        /\ accuracy = 33

C5_Witness == HelloWroldCall /\ Len(diffs) = 3

\* C6 as stated: replacing a match part by an add or remove part, the length
\* kept, strictly lowers calculateAccuracy.
C6_StrictlyDecreasing == [][ReplaceMatch => accuracy' < accuracy]_vars

\* C6 as amended: replacing a match part by an add or remove part, the length
\* kept, never raises calculateAccuracy, and strictly lowers it when the
\* sequence has at most 100 parts.
C6_NonIncreasing ==
    [][ReplaceMatch =>
          /\ accuracy' <= accuracy
          /\ Len(diffs) <= 100 => accuracy' < accuracy]_vars

\* 101 parts: with 51 and with 50 match parts the accuracy is 50
C6_Witness ==
    /\ pc = "acc"
    /\ Len(diffs) = 101
    /\ CountMatches(diffs) = 50
    /\ accuracy = 50
    /\ calculateAccuracy([diffs EXCEPT ![51].type = "match"]) = 50

\* C7 as stated: a match part and a remove part carry a reference token, an add
\* part carries a user token, and no match part carries a token taken from the
\* user text (none comes from the add branch of the walk).
C7_PartsCarryTheirSide ==
    Returned =>
        \A k \in 1..Len(diffs) :
            /\ diffs[k].type \in {"match", "remove"} =>
                   /\ diffs[k].value \in Range(tokenize(originalText))
                   /\ rawParts[k].type # "add"
            /\ diffs[k].type = "add" => diffs[k].value \in Range(tokenize(userText))

\* C7 as amended: a remove part carries a reference token, an add part carries
\* a user token, and a match part carries a reference token unless it is a
\* pure-punctuation user token (empty normalized key) that the walk made an
\* add part and the post-processing turned into a match part.
C7_PartsCarryTheirSideOrPunctuation ==
    Returned =>
        \A k \in 1..Len(diffs) :
            /\ diffs[k].type = "remove" => diffs[k].value \in Range(tokenize(originalText))
            /\ diffs[k].type = "add" => diffs[k].value \in Range(tokenize(userText))
            /\ diffs[k].type = "match" =>
                   IF rawParts[k].type = "add"
                   THEN /\ cleanWord(diffs[k].value) = <<>>
                        /\ diffs[k].value \in Range(tokenize(userText))
                   ELSE diffs[k].value \in Range(tokenize(originalText))

\* a call that returned a match part for a word the user wrote differently
\* and a match part that the walk had made an add part
C7_Witness ==
    /\ Returned
    /\ \E k \in 1..Len(diffs) :
         /\ rawParts[k].type = "match"
         /\ diffs[k].value \notin Range(userWords)
    /\ \E k \in 1..Len(diffs) : rawParts[k].type = "add" /\ diffs[k].type = "match"

AsciiLetters == Range(UpperChars) \cup Range(LowerChars)
AsciiAlphanumerics == AsciiLetters \cup Range(DigitChars)

LowerCased(chars) == [k \in 1..Len(chars) |-> ToLowerChar(chars[k])]

\* C8 as stated: cleanWord keeps the letters, the digits and the underscore,
\* lower-cased, and removes every other character; the result is empty if and
\* only if the word has no letter, digit or underscore.  (The letters are read
\* here as the ASCII letters, the reading that asks least of the code.)
C8_KeepsWordCharacters ==
    pc = "cleaned" =>
        LET kept(c) == c \in AsciiAlphanumerics \cup {"_"}
        IN  /\ clean = LowerCased(SelectSeq(word, kept))
            /\ clean = <<>> <=> \A k \in 1..Len(word) : ~kept(word[k])

\* C8 as amended: cleanWord keeps the ASCII letters and the digits,
\* lower-cased, and removes every other character, the underscore and the
\* letters outside ASCII included; the result is empty if and only if the word
\* has no ASCII letter and no digit.
C8_KeepsAsciiAlphanumerics ==
    pc = "cleaned" =>
        LET kept(c) == c \in AsciiAlphanumerics
        IN  /\ clean = LowerCased(SelectSeq(word, kept))
            /\ clean = <<>> <=> \A k \in 1..Len(word) : ~kept(word[k])

\* an underscore, a letter outside ASCII and an upper-case letter, cleaned to "b"
C8_Witness ==
    /\ pc = "cleaned"
    /\ Range(word) = {"_", "é", "B"}
    /\ clean = <<"b">>

\* C9: when the user's and the reference's tokens have the same sequence of
\* normalized keys, calculateDiff returns one match part per reference token,
\* with the reference's surface forms in order, and the accuracy is 100; so
\* calculateDiff("hello world", "hello world", {}) is match("hello"),
\* match("world").
C9_SameKeysAllMatch ==
    /\ (pc = "scored" /\ Keys(tokenize(userText)) = Keys(tokenize(originalText))) =>
           /\ diffs = [k \in 1..Len(originalWords) |-> Part("match", originalWords[k])]
           /\ originalWords = tokenize(originalText)
           /\ accuracy = 100
    /\ (pc = "scored" /\ userText = TextHelloWorld /\ originalText = TextHelloWorld) =>
           diffs = <<Part("match", Hello), Part("match", World)>>

\* two tokens with equal keys and different surface forms on the two sides
C9_Witness ==
    /\ pc = "scored"
    /\ Keys(userWords) = Keys(originalWords)
    /\ Len(userWords) = 2
    /\ userWords[1] # originalWords[1]
    /\ userWords[2] # originalWords[2]
    /\ accuracy = 100

IMetJonCall ==
    /\ pc = "scored"
    /\ userText = TextIMetJon
    /\ originalText = TextIMetJohn

\* C10: calculateDiff("I met jon yesterday", "I met John yesterday.", {"john"})
\* is the four match parts "I", "met", "John", "yesterday." and its accuracy is
\* 100; with no proper noun registered the call reports "John" as remove and
\* "jon" as add.
C10_ProperNounFuzzyMatch ==
    /\ (IMetJonCall /\ properNouns = <<KeyJohn>>) =>
           /\ diffs = <<Part("match", <<"I">>), Part("match", <<"m", "e", "t">>),
                        Part("match", <<"J", "o", "h", "n">>),
                        Part("match", Append(Yesterday, "."))>>
           /\ accuracy = 100
    /\ (IMetJonCall /\ properNouns = <<>>) =>
           /\ diffs = <<Part("match", <<"I">>), Part("match", <<"m", "e", "t">>),
                        Part("add", <<"j", "o", "n">>),
                        Part("remove", <<"J", "o", "h", "n">>),
                        Part("match", Append(Yesterday, "."))>>
           /\ accuracy = 60

C10_Witness == IMetJonCall /\ properNouns = <<KeyJohn>> /\ accuracy = 100

\* the normalized key of a token, said without the regular expression: its
\* ASCII letters and digits, lower-cased
NormalizedKey(w) == LowerCased(SelectSeq(w, LAMBDA c : c \in AsciiAlphanumerics))

IsPurePunctuation(w) == NormalizedKey(w) = <<>>

\* one part per token of words, in order: match for a pure-punctuation token,
\* the type ty for any other
OnePartPerToken(words, ty) ==
    [k \in 1..Len(words) |->
        Part(IF IsPurePunctuation(words[k]) THEN "match" ELSE ty, words[k])]

\* C11: calculateDiff of two texts without tokens (empty or white space only)
\* is the empty sequence; when the user text has no token the result is one
\* part per reference token, in reference order, of type remove, or match if
\* the token is pure punctuation; when the reference text has no token the
\* result is one part per user token, in user order, of type add, or match if
\* the token is pure punctuation.
C11_EmptyInputs ==
    Returned =>
        /\ (tokenize(userText) = <<>> /\ tokenize(originalText) = <<>>) => diffs = <<>>
        /\ tokenize(userText) = <<>> =>
               diffs = OnePartPerToken(tokenize(originalText), "remove")
        /\ tokenize(originalText) = <<>> =>
               diffs = OnePartPerToken(tokenize(userText), "add")

\* an empty user text against a reference of a word and a pure-punctuation
\* token, and the other way round
C11_Witness ==
    /\ Returned
    /\ \/ userText = <<>> /\ originalText = <<"a", " ", ",">>
       \/ userText = <<",", " ", "b">> /\ originalText = <<>>
    /\ Len(diffs) = 2
    /\ \E k \in 1..2 : diffs[k].type = "match"
    /\ \E k \in 1..2 : diffs[k].type \in {"add", "remove"}

AABCall ==
    /\ Returned
    /\ userText = TextAAB
    /\ originalText = TextAB
    /\ properNouns = <<>>

\* C12: calculateDiff("a a b", "a b", {}) returns exactly three parts, one add
\* part "a" and the match parts "a" then "b"; the add part stands next to the
\* matched "a", and the match and add parts keep the order of the user's
\* tokens.  (The code puts the add part first: add "a", match "a", match "b".)
C12_DuplicateTokens ==
    AABCall =>
        /\ Len(diffs) = 3
        /\ ValuesOfTypes(diffs, {"add"}) = << <<"a">> >>
        /\ ValuesOfTypes(diffs, {"match"}) = << <<"a">>, <<"b">> >>
        /\ ValuesOfTypes(diffs, {"remove"}) = <<>>
        /\ \E k \in 1..2 :
             {diffs[k], diffs[k + 1]} = {Part("add", <<"a">>), Part("match", <<"a">>)}
        /\ ValuesOfTypes(diffs, {"match", "add"}) = tokenize(userText)
        /\ diffs = <<Part("add", <<"a">>), Part("match", <<"a">>), Part("match", <<"b">>)>>

C12_Witness == AABCall /\ pc = "scored" /\ Len(diffs) = 3 /\ accuracy = 67

\* the positions of s where a maximal run of characters that are not white
\* space starts, and the position where the run that starts at a ends
RunStarts(s) ==
    {a \in 1..Len(s) :
        /\ s[a] \notin WhiteSpace
        /\ IF a = 1 THEN TRUE ELSE s[a - 1] \in WhiteSpace}
RunEnd(s, a) ==
    CHOOSE b \in a..Len(s) :
        /\ \A c \in a..b : s[c] \notin WhiteSpace
        /\ IF b = Len(s) THEN TRUE ELSE s[b + 1] \in WhiteSpace

\* the maximal runs of characters of s that are not white space, in order
MaximalRuns(s) ==
    LET starts   == RunStarts(s)
        start(k) == CHOOSE a \in starts : Cardinality({x \in starts : x < a}) = k - 1
    IN  [k \in 1..Cardinality(starts) |-> SubSeq(s, start(k), RunEnd(s, start(k)))]

\* C13: tokenize returns, in order, exactly the maximal runs of characters
\* that are not white space; no token is empty or holds white space, and a
\* text that is empty or all white space gives the empty sequence.
C13_TokenizeMaximalRuns ==
    pc = "tokenized" =>
        /\ tokens = MaximalRuns(inputText)
        /\ \A k \in 1..Len(tokens) :
             /\ tokens[k] # <<>>
             /\ Range(tokens[k]) \cap WhiteSpace = {}
        /\ Range(inputText) \subseteq WhiteSpace => tokens = <<>>

\* a text that starts with white space and has a run of two white-space
\* characters between its two tokens
C13_Witness ==
    /\ pc = "tokenized"
    /\ Len(tokens) = 2
    /\ Head(inputText) \in WhiteSpace
    /\ \E k \in 2..(Len(inputText) - 2) :
         /\ inputText[k] \notin WhiteSpace
         /\ inputText[k + 1] \in WhiteSpace
         /\ inputText[k + 2] \in WhiteSpace

\* how many times the list holds key
Occurrences(list, key) == Cardinality({k \in 1..Len(list) : list[k] = key})

\* C14: handleAddProperNoun with a word whose lower-case form is already in
\* the list leaves the list unchanged; with any other word it appends that
\* lower-case form and nothing else; so after every register action the list
\* holds the key of the word just registered exactly once, and no key is ever
\* in the list twice.
C14_RegisterIsIdempotent ==
    [][pc = "app" =>
          LET key == LowerCased(registered')
          IN  /\ Includes(properNouns, key) => properNouns' = properNouns
              /\ ~Includes(properNouns, key) => properNouns' = Append(properNouns, key)
              /\ Occurrences(properNouns', key) = 1
              /\ \A k \in 1..Len(properNouns') :
                   Occurrences(properNouns', properNouns'[k]) = 1]_vars

\* "AB" registered when the list already holds "ab" (and another key)
C14_Witness ==
    /\ pc = "app"
    /\ registered = <<"A", "B">>
    /\ properNouns = << <<"a", "b">>, <<"c", "d">> >>

\* C15: the button that registers a proper noun is offered, and
\* onAddProperNoun is called, only for a part of type remove whose normalized
\* key is longer than one character and is not in the proper-noun list; never
\* for a match or add part, a pure-punctuation or one-character key, or a key
\* already registered; and the argument passed is the normalized key.
C15_OfferedOnlyForUnknownRemove ==
    /\ [](pc = "scored" =>
            \A k \in 1..Len(diffs) :
                ButtonOffered(diffs[k]) =>
                    /\ diffs[k].type = "remove"
                    /\ Len(NormalizedKey(diffs[k].value)) > 1
                    /\ NormalizedKey(diffs[k].value) \notin Range(properNouns))
    /\ [][(pc = "scored" /\ (registered' # registered \/ properNouns' # properNouns)) =>
            \E k \in 1..Len(diffs) :
                /\ diffs[k].type = "remove"
                /\ Len(NormalizedKey(diffs[k].value)) > 1
                /\ NormalizedKey(diffs[k].value) \notin Range(properNouns)
                /\ registered' = NormalizedKey(diffs[k].value)
                /\ properNouns' = Append(properNouns, registered')]_vars

\* "john" has been registered by a click, and the viewer shows an add part
\* with a long key, a remove part with a one-character key, a remove part with
\* the registered key and a match part
C15_Witness ==
    /\ pc = "scored"
    /\ registered = KeyJohn
    /\ properNouns = <<KeyJohn>>
    /\ \E k \in 1..Len(diffs) : diffs[k].type = "add"
    /\ \E k \in 1..Len(diffs) : diffs[k].type = "remove" /\ Len(cleanWord(diffs[k].value)) = 1
    /\ \E k \in 1..Len(diffs) : diffs[k].type = "remove" /\ cleanWord(diffs[k].value) = KeyJohn
    /\ \E k \in 1..Len(diffs) : diffs[k].type = "match"

SameArguments(c1, c2) ==
    /\ c1.user = c2.user
    /\ c1.original = c2.original
    /\ c1.nouns = c2.nouns

\* C17: two calls of calculateDiff with the same user text, reference text and
\* proper-noun list return the same sequence, whatever calls were made in
\* between; and from the call to its return the proper-noun list stays as it
\* was given.
C17_PureFunction ==
    /\ [](\A a \in 1..Len(calls) : \A b \in 1..Len(calls) :
              SameArguments(calls[a], calls[b]) => calls[a].result = calls[b].result)
    /\ [][(pc \in {"call", "backtrack"}) => (properNouns' = properNouns)]_vars

\* calls with a registered proper noun have returned: two of them with the same
\* arguments, and between the two a call with another reference text
C17_Witness ==
    \E a \in 1..Len(calls) : \E b \in 1..Len(calls) : \E c \in 1..Len(calls) :
        /\ a < b
        /\ b < c
        /\ SameArguments(calls[a], calls[c])
        /\ calls[b].original # calls[a].original
        /\ calls[a].nouns # <<>>
        /\ calls[a].result # <<>>

\* an iteration of the backtracking loop
WalkStep == pc = "backtrack" /\ pc' = "backtrack"

\* C16: calculateDiff is total.  While the loop condition holds one of the
\* three branches is taken (the chain of else-ifs never falls through), every
\* iteration takes exactly one branch, puts one part in front and lowers
\* i + j with neither index going below zero, so the loop ends within n + m
\* iterations (n user tokens, m reference tokens), and it is left, and the
\* result returned, with i = 0 and j = 0.
C16_WalkTerminates ==
    /\ []((pc = "backtrack" /\ LoopCondition) =>
             (IF IsMatchBack THEN TRUE ELSE IF RemoveCondition THEN TRUE ELSE AddCondition))
    /\ [][WalkStep =>
             /\ i' + j' < i + j
             /\ i' >= 0
             /\ j' >= 0
             /\ Len(rawParts') = Len(rawParts) + 1
             /\ branch' \in {"match", "remove", "add"}
             /\ branch' = "match" <=> (i' = i - 1 /\ j' = j - 1)
             /\ branch' = "remove" <=> (i' = i /\ j' = j - 1)
             /\ branch' = "add" <=> (i' = i - 1 /\ j' = j)]_vars
    /\ [](pc = "backtrack" =>
             /\ i \in 0..Len(userWords)
             /\ j \in 0..Len(originalWords)
             /\ Len(rawParts) <= (Len(userWords) - i) + (Len(originalWords) - j))
    /\ [](Returned => (i = 0 /\ j = 0 /\ ~LoopCondition /\ Len(diffs) = Len(rawParts)))

\* a call that has returned after taking each of the three branches
C16_Witness ==
    /\ Returned
    /\ i = 0
    /\ j = 0
    /\ {rawParts[k].type : k \in 1..Len(rawParts)} = {"match", "remove", "add"}

Min3(a, b, c) == Min2(a, Min2(b, c))

\* the Levenshtein distance as it is defined: the least number of insertions,
\* deletions and substitutions of one character that turn a into b
RECURSIVE ClassicLev(_, _)
ClassicLev(a, b) ==
    IF a = <<>> THEN Len(b)
    ELSE IF b = <<>> THEN Len(a)
    ELSE IF Head(a) = Head(b) THEN ClassicLev(Tail(a), Tail(b))
    ELSE 1 + Min3(ClassicLev(Tail(a), b), ClassicLev(a, Tail(b)), ClassicLev(Tail(a), Tail(b)))

\* the match predicate of the specification, on raw tokens
MatchPredicate(uRaw, oRaw, nouns) ==
    LET u == NormalizedKey(uRaw)
        o == NormalizedKey(oRaw)
    IN  IF u = o THEN TRUE
        ELSE /\ o \in Range(nouns)
             /\ 5 * ClassicLev(u, o) <= 2 * Max2(Len(u), Len(o))

OneTokenEach == Len(userWords) = 1 /\ Len(originalWords) = 1

\* C18: in a call with one user token u and one reference token o, the fill
\* sets dp[1][1] to 1, and the walk takes the match branch at i = 1, j = 1,
\* exactly when the keys of u and o are equal, or the key of o is a registered
\* proper noun and 5 * lev <= 2 * max(len) for the classic Levenshtein
\* distance of the keys; the bound is inclusive, and a registered key of u
\* alone does not make a match.
C18_MatchPredicate ==
    (pc # "call" /\ OneTokenEach) =>
        LET holds == MatchPredicate(userWords[1], originalWords[1], properNouns)
        IN  /\ Dp(1, 1) = 1 <=> holds
            /\ Dp(1, 1) \in {0, 1}
            /\ rawParts # <<>> => (rawParts[Len(rawParts)].type = "match" <=> holds)
            /\ Returned => ((\A k \in 1..Len(rawParts) : rawParts[k].type = "match") <=> holds)

\* a user token at distance 2 of a registered reference token of five letters,
\* on the bound, returned as a match
C18_Witness ==
    /\ pc = "scored"
    /\ OneTokenEach
    /\ Len(cleanWord(originalWords[1])) = 5
    /\ Len(cleanWord(userWords[1])) <= 5
    /\ ClassicLev(cleanWord(userWords[1]), cleanWord(originalWords[1])) = 2
    /\ properNouns = <<cleanWord(originalWords[1])>>
    /\ diffs = <<Part("match", originalWords[1])>>

\* the pairs <<p, q>> of a user token p and a reference token q that satisfy
\* the match predicate
MatchingPairs ==
    {pq \in (1..Len(userWords)) \X (1..Len(originalWords)) :
        MatchPredicate(userWords[pq[1]], originalWords[pq[2]], properNouns)}

\* a set of pairs is a pairing when it is one-to-one and keeps the order: of
\* any two of its pairs one is before the other on both sides
IsPairing(M) ==
    \A e \in M : \A f \in M :
        e # f => ((e[1] < f[1] /\ e[2] < f[2]) \/ (f[1] < e[1] /\ f[2] < e[2]))

\* the size of the largest pairing, among the pairings of the set given, that
\* lies within the first x user tokens and the first y reference tokens
MaxPairing(pairings, x, y) ==
    LET within == {M \in pairings : \A pq \in M : pq[1] <= x /\ pq[2] <= y}
    IN  CHOOSE size \in 0..Min2(x, y) :
            /\ \E M \in within : Cardinality(M) = size
            /\ \A M \in within : Cardinality(M) <= size

TableFilled == pc = "backtrack" /\ rawParts = <<>>

\* C19: when the table is filled, dp[x][y] is, for every x in 0..n and y in
\* 0..m, the size of the largest order-preserving one-to-one pairing of the
\* first x user tokens with the first y reference tokens in which every pair
\* satisfies the match predicate, also when a registered proper noun makes
\* the predicate non-transitive.
C19_TableIsLargestPairing ==
    TableFilled =>
        LET pairings == {M \in SUBSET MatchingPairs : IsPairing(M)}
        IN  /\ Len(dp) = Len(userWords) + 1
            /\ \A x \in 0..Len(userWords) :
                 /\ Len(dp[x + 1]) = Len(originalWords) + 1
                 /\ \A y \in 0..Len(originalWords) :
                      Dp(x, y) = MaxPairing(pairings, x, y)

\* the table of "John jon" against "jon John" with "john" registered: the
\* user's "jon" matches both reference tokens, the user's "John" only one, and
\* the two matches of distinct tokens cross
C19_Witness ==
    /\ TableFilled
    /\ properNouns = <<KeyJohn>>
    /\ userWords = << <<"J", "o", "h", "n">>, <<"j", "o", "n">> >>
    /\ originalWords = << <<"j", "o", "n">>, <<"J", "o", "h", "n">> >>
    /\ Cardinality(MatchingPairs) = 3
    /\ Dp(2, 2) = 1

\* what the rule of the specification prescribes at the indices i and j of
\* the walk: the type of the part, its value, and the indices after it
RulePrescribes ==
    IF i > 0 /\ j > 0 /\ MatchPredicate(userWords[i], originalWords[j], properNouns)
    THEN [type |-> "match", value |-> originalWords[j], i |-> i - 1, j |-> j - 1]
    ELSE IF j > 0 /\ (IF i = 0 THEN TRUE ELSE Dp(i, j - 1) >= Dp(i - 1, j))
    THEN [type |-> "remove", value |-> originalWords[j], i |-> i, j |-> j - 1]
    ELSE [type |-> "add", value |-> userWords[i], i |-> i - 1, j |-> j]

\* C20: every iteration of the walk puts in front of rawParts exactly the part
\* the rule prescribes and moves the indices as the rule says: match when
\* both indices are positive and the pair matches, otherwise remove when
\* j > 0 and (i = 0 or dp[i][j-1] >= dp[i-1][j]), otherwise add.  On a tie
\* it is remove; and whenever the rule says add, the guard of the code's add
\* branch holds, so the guard never changes the outcome.
C20_WalkFollowsRule ==
    /\ [][WalkStep =>
             /\ rawParts' = <<Part(RulePrescribes.type, RulePrescribes.value)>> \o rawParts
             /\ i' = RulePrescribes.i
             /\ j' = RulePrescribes.j
             /\ branch' = RulePrescribes.type]_vars
    /\ []((pc = "backtrack" /\ LoopCondition) =>
             /\ RulePrescribes.type = "add" => (~IsMatchBack /\ ~RemoveCondition /\ AddCondition)
             /\ (i > 0 /\ j > 0 /\ ~IsMatchBack /\ Dp(i, j - 1) = Dp(i - 1, j)) =>
                    (RemoveCondition /\ RulePrescribes.type = "remove"))

\* a walk that has emitted a match and then met a tie with both indices
\* positive and no match, and emitted remove there
C20_Witness ==
    /\ pc = "backtrack"
    /\ branch = "remove"
    /\ i > 0
    /\ Dp(i, j) = Dp(i - 1, j + 1)
    /\ ~MatchPredicate(userWords[i], originalWords[j + 1], properNouns)
    /\ \E k \in 1..Len(rawParts) : rawParts[k].type = "match"

---------------------------------------------------------------------------
\* C21: in every sequence calculateDiff returns, no part of type add or
\* remove has a value whose normalized key is empty; the returned sequence
\* is the sequence the walk built, part by part: a part of type add or remove
\* whose value has an empty key has become a match part with the same value
\* at the same position, and every other part is unchanged.
C21_PunctuationReclassified ==
    Returned =>
        /\ Len(diffs) = Len(rawParts)
        /\ \A k \in 1..Len(diffs) :
             /\ diffs[k].type \in {"add", "remove"} => ~IsPurePunctuation(diffs[k].value)
             /\ IF rawParts[k].type \in {"add", "remove"} /\ IsPurePunctuation(rawParts[k].value)
                THEN diffs[k] = Part("match", rawParts[k].value)
                ELSE diffs[k] = rawParts[k]

\* a returned sequence in which the walk had left a pure-punctuation add part
\* (reclassified) next to a match part and a remove part of a word (both kept)
C21_Witness ==
    /\ Returned
    /\ \E k \in 1..Len(rawParts) :
         /\ rawParts[k].type = "add"
         /\ IsPurePunctuation(rawParts[k].value)
         /\ diffs[k].type = "match"
    /\ \E k \in 1..Len(rawParts) :
         rawParts[k].type = "remove" /\ ~IsPurePunctuation(rawParts[k].value)
    /\ \E k \in 1..Len(rawParts) : rawParts[k].type = "match"

---------------------------------------------------------------------------
(* calculateDiff called again on the same texts after one more key has been *)
(* put on the proper-noun list, as the DiffViewer calls it again when        *)
(* handleAddProperNoun has changed the list.  The texts are made of a       *)
(* pure-punctuation token, a proper noun and a misspelling of it; the key   *)
(* added is the empty string or the key of one of the two words.            *)

NounVocabulary == { <<",">>, <<"j", "o", "n">>, <<"J", "o", "h", "n">> }

KeyJon == <<"j", "o", "n">>

AddedKeys == { <<>>, KeyJohn, KeyJon }

InitNouns ==
    /\ pc = "call"
    /\ userText \in {JoinWords(ws, <<" ">>) : ws \in SeqsUpTo(NounVocabulary, MaxUserTokens)}
    /\ originalText \in
           {JoinWords(ws, <<" ">>) : ws \in SeqsUpTo(NounVocabulary, MaxReferenceTokens)}
    /\ properNouns \in ProperNounLists
    /\ userWords = <<>>
    /\ originalWords = <<>>
    /\ dp = <<>>
    /\ i = 0
    /\ j = 0
    /\ rawParts = <<>>
    /\ branch = "none"
    /\ diffs = <<>>
    /\ accuracy = 0
    /\ word = <<>>
    /\ clean = <<>>
    /\ inputText = <<>>
    /\ tokens = <<>>
    /\ registered = <<>>
    /\ calls = <<>>
    /\ AppAtRest

\* handleAddProperNoun(k); when the list has changed the useMemo of
\* DiffViewer runs again: it gives [] when one of the texts is empty, and
\* else the diff of the same texts is computed again
RegisterKey ==
    /\ pc = "scored"
    /\ Len(calls) <= MaxRegistrations
    /\ \E k \in AddedKeys :
         /\ registered' = k
         /\ properNouns' = handleAddProperNoun(properNouns, k)
    /\ IF properNouns' = properNouns
       THEN UNCHANGED <<pc, diffs, accuracy>>
       ELSE IF userText = <<>> \/ originalText = <<>>
            THEN /\ diffs' = <<>>
                 /\ accuracy' = calculateAccuracy(<<>>)
                 /\ pc' = "scored"
            ELSE /\ pc' = "call"
                 /\ UNCHANGED <<diffs, accuracy>>
    /\ storage' = persistProperNouns(storage, properNouns, properNouns')
    /\ UNCHANGED <<userText, originalText, userWords, originalWords,
                   dp, i, j, rawParts, branch, word, clean,
                   inputText, tokens, calls, appStates>>

NextNouns ==
    \/ Fill \/ BacktrackMatch \/ BacktrackRemove \/ BacktrackAdd \/ Return \/ Score
    \/ RegisterKey

SpecNouns == InitNouns /\ [][NextNouns]_vars

\* the later call was made with the list of the earlier call and key k after it
WithKeyAdded(earlier, later, k) ==
    /\ earlier.user = later.user
    /\ earlier.original = later.original
    /\ later.nouns = Append(earlier.nouns, k)

\* C22: the empty string is never treated as a registered proper noun.  A
\* call with the empty string added to the proper-noun list returns what the
\* call without it returned; and the match test, in the table and in the
\* walk, pairs a reference token whose key is empty with a user token only
\* when the user token's key is empty too.
C22_EmptyKeyNotRegistered ==
    /\ \A a \in 1..Len(calls) : \A b \in 1..Len(calls) :
           WithKeyAdded(calls[a], calls[b], <<>>) => calls[b].result = calls[a].result
    /\ pc = "backtrack" =>
           /\ \A x \in 1..Len(userWords) : \A y \in 1..Len(originalWords) :
                  (/\ cleanWord(originalWords[y]) = <<>>
                   /\ IsMatchFill(userWords[x], originalWords[y], properNouns))
                      => cleanWord(userWords[x]) = <<>>
           /\ (IsMatchBack /\ cleanWord(ORaw) = <<>>) => cleanWord(URaw) = <<>>

\* the second call has returned with the empty string on the list, for a
\* reference with a pure-punctuation token and a user text with a word, and
\* the result has a part that is no match
C22_Witness ==
    /\ Returned
    /\ Len(calls) = 2
    /\ WithKeyAdded(calls[1], calls[2], <<>>)
    /\ Includes(properNouns, <<>>)
    /\ HasPunctuationToken(originalWords)
    /\ \E x \in 1..Len(userWords) : cleanWord(userWords[x]) # <<>>
    /\ \E k \in 1..Len(diffs) : diffs[k].type # "match"

\* C23: registering a proper noun never lowers the score: a call made with
\* one more key on the proper-noun list, on the same texts, returns a
\* sequence whose calculateAccuracy is at least that of the call before.
C23_RegisteringNeverLowers ==
    \A a \in 1..Len(calls) : \A b \in 1..Len(calls) :
        (\E k \in AddedKeys : WithKeyAdded(calls[a], calls[b], k))
            => calculateAccuracy(calls[b].result) >= calculateAccuracy(calls[a].result)

\* the number of parts of ds of type ty
CountType(ds, ty) == Len(SelectSeq(ds, LAMBDA d : d.type = ty))

\* C24: the backtracking walk realises the optimum of the table.  During the
\* walk the match parts made so far and dp[i][j] add up to dp[n][m]; when the
\* loop has ended the sequence before reclassification has dp[n][m] match
\* parts, m - dp[n][m] remove parts and n - dp[n][m] add parts, and the
\* returned sequence has n + m - dp[n][m] parts (n user tokens, m reference
\* tokens).
C24_WalkRealisesOptimum ==
    LET n == Len(userWords)
        m == Len(originalWords)
    IN  /\ pc = "backtrack" => CountType(rawParts, "match") + Dp(i, j) = Dp(n, m)
        /\ Returned =>
               /\ CountType(rawParts, "match") = Dp(n, m)
               /\ CountType(rawParts, "remove") = m - Dp(n, m)
               /\ CountType(rawParts, "add") = n - Dp(n, m)
               /\ Len(diffs) = n + m - Dp(n, m)

\* a call has returned whose walk made a match part, a remove part and an add
\* part, for a table whose optimum is below the number of tokens of either text
C24_Witness ==
    /\ Returned
    /\ Dp(Len(userWords), Len(originalWords)) > 0
    /\ Dp(Len(userWords), Len(originalWords)) < Len(userWords)
    /\ Dp(Len(userWords), Len(originalWords)) < Len(originalWords)
    /\ CountType(rawParts, "remove") > 0
    /\ CountType(rawParts, "add") > 0

---------------------------------------------------------------------------
(* App: the start of the application.  The first render has the three       *)
(* states empty; its effects run in the order they are written: the mount   *)
(* effect, which loads the three lists and sets the states, and the three   *)
(* persist effects, which see the states of the first render.  The states   *)
(* set make App render again, and the persist effects run again, now with   *)
(* the loaded lists.  The variables sessions, properNouns and notes hold    *)
(* the states as the next render will see them.                             *)

Session(id, createdAt, text, attempts) ==
    [id |-> id, createdAt |-> createdAt, originalText |-> text, attempts |-> attempts]

Attempt(id, timestamp, text) == [id |-> id, timestamp |-> timestamp, userText |-> text]

Note(id, content, createdAt, updatedAt) ==
    [id |-> id, content |-> content, createdAt |-> createdAt, updatedAt |-> updatedAt]

\* what the three keys of localStorage may hold when the application is started
StoredSessions ==
    { Absent, Unparsable, Json(<<>>),
      Json(<<Session(1, 2, TextB, <<Attempt("x1", 2, <<"a">>)>>)>>),
      Json(<<Session(1, 1, Null, <<>>), Session(3, 1, TextB, <<>>)>>) }
StoredProperNouns == { Absent, Unparsable, Json(<<>>), Json(<<KeyJohn>>) }
StoredNotes == { Absent, Unparsable, Json(<<>>), Json(<<Note("x1", "n1", 1, 1)>>) }

\* the state before the first effect, for what localStorage holds
AppMounted(store) ==
    /\ pc = "mount"
    /\ properNouns = <<>>
    /\ sessions = <<>>
    /\ notes = <<>>
    /\ storage = store
    /\ startStorage = store
    /\ currentView = "HOME"
    /\ activeSessionId = NoSession
    /\ reader = NoReader
    /\ handler = NoHandler
    /\ stage = "INPUT_DICTATION"
    /\ currentAttemptId = NullId
    /\ isEditingOriginal = FALSE
    /\ dictationInput = <<>>
    /\ originalInput = <<>>
    /\ errorMsg = FALSE
    /\ page = 1
    /\ userText = <<>>
    /\ originalText = <<>>
    /\ userWords = <<>>
    /\ originalWords = <<>>
    /\ dp = <<>>
    /\ i = 0
    /\ j = 0
    /\ rawParts = <<>>
    /\ branch = "none"
    /\ diffs = <<>>
    /\ accuracy = 0
    /\ word = <<>>
    /\ clean = <<>>
    /\ inputText = <<>>
    /\ tokens = <<>>
    /\ registered = <<>>
    /\ calls = <<>>

InitStartup ==
    \E s \in StoredSessions : \E p \in StoredProperNouns : \E n \in StoredNotes :
        AppMounted([sessions |-> s, properNouns |-> p, notes |-> n])

\* what is left unchanged by a step of App that is no handler of SessionDetail or Home
detailVars == <<stage, currentAttemptId, isEditingOriginal, dictationInput, originalInput,
                errorMsg>>

\* useEffect(() => { setSessions(loadSessions()); ... }, [])
MountEffect ==
    /\ pc = "mount"
    /\ sessions' = loadSessions(storage.sessions)
    /\ properNouns' = loadProperNouns(storage.properNouns)
    /\ notes' = loadNotes(storage.notes)
    /\ handler' = [name |-> "mountEffect"]
    /\ pc' = "sessions1"
    /\ UNCHANGED <<storage, startStorage, currentView, activeSessionId, reader, page,
                   detailVars, engineVars>>

\* the persist effect of sessions: if (sessions.length > 0) saveSessions(sessions)
persistSessions(store, list) == IF Len(list) > 0 THEN saveSessions(store, list) ELSE store

\* useEffect(..., [sessions]): in the first round sessions is the [] of the first render
PersistSessionsEffect ==
    /\ pc \in {"sessions1", "sessions2"}
    /\ storage' = persistSessions(storage, IF pc = "sessions1" THEN <<>> ELSE sessions)
    /\ handler' = [name |-> "persistSessions"]
    /\ pc' = IF pc = "sessions1" THEN "properNouns1" ELSE "properNouns2"
    /\ UNCHANGED <<properNouns, sessions, notes, startStorage, currentView, activeSessionId,
                   reader, page, detailVars, engineVars>>

\* useEffect(() => { saveProperNouns(properNouns); }, [properNouns])
PersistProperNounsEffect ==
    /\ pc \in {"properNouns1", "properNouns2"}
    /\ storage' = saveProperNouns(storage, IF pc = "properNouns1" THEN <<>> ELSE properNouns)
    /\ handler' = [name |-> "persistProperNouns"]
    /\ pc' = IF pc = "properNouns1" THEN "notes1" ELSE "notes2"
    /\ UNCHANGED <<properNouns, sessions, notes, startStorage, currentView, activeSessionId,
                   reader, page, detailVars, engineVars>>

\* useEffect(() => { saveNotes(notes); }, [notes]); after the first round App
\* renders again with the states the mount effect has set
PersistNotesEffect ==
    /\ pc \in {"notes1", "notes2"}
    /\ storage' = saveNotes(storage, IF pc = "notes1" THEN <<>> ELSE notes)
    /\ handler' = [name |-> "persistNotes"]
    /\ pc' = IF pc = "notes1" THEN "sessions2" ELSE "app"
    /\ UNCHANGED <<properNouns, sessions, notes, startStorage, currentView, activeSessionId,
                   reader, page, detailVars, engineVars>>

NextStartup ==
    MountEffect \/ PersistSessionsEffect \/ PersistProperNounsEffect \/ PersistNotesEffect

SpecStartup == InitStartup /\ [][NextStartup]_vars

\* the lists the load functions read from localStorage
Loaded(store) ==
    [sessions |-> loadSessions(store.sessions),
     properNouns |-> loadProperNouns(store.properNouns),
     notes |-> loadNotes(store.notes)]

\* C27: starting the application loses no stored data.  Once the mount effect
\* and the persist effects have all run, storage holds the sessions, proper
\* nouns and notes it held before the start and the states hold the same;
\* and after the persist effects of the first render (which see the empty
\* states) storage does not hold an empty list where proper nouns or notes
\* were stored.
C27_StartupKeepsStorage ==
    /\ pc = "app" =>
           /\ Loaded(storage) = Loaded(startStorage)
           /\ sessions = Loaded(startStorage).sessions
           /\ properNouns = Loaded(startStorage).properNouns
           /\ notes = Loaded(startStorage).notes
    /\ pc = "sessions2" =>
           /\ Loaded(startStorage).properNouns # <<>> => Loaded(storage).properNouns # <<>>
           /\ Loaded(startStorage).notes # <<>> => Loaded(storage).notes # <<>>

---------------------------------------------------------------------------
(* App after the start: its handlers.  A handler runs to its end, React     *)
(* renders again and runs the persist effect of each state the handler has  *)
(* set before the next event is handled, so the effect is part of the step. *)
(* Home is mounted while currentView is HOME and SessionDetail while it is  *)
(* SESSION and the active session exists; a component that is not mounted   *)
(* has no state, and its variables hold what useState will start it with.   *)

\* !text is false: the text is neither null nor the empty string
Truthy(text) == text # Null /\ text # <<>>

\* const activeSession = sessions.find(s => s.id === activeSessionId)
HasActiveSession == \E k \in 1..Len(sessions) : sessions[k].id = activeSessionId
FindIndex(list, id) ==
    CHOOSE k \in 1..Len(list) :
        /\ list[k].id = id
        /\ \A l \in 1..(k - 1) : list[l].id # id
ActiveSession == sessions[FindIndex(sessions, activeSessionId)]

\* Date.now(), and the ids generateId makes (taken to differ from the ids in use)
Times == {2}
GeneratedIds == {"g1", "g2", "g3"}

\* sessions.reduce((max, s) => Math.max(max, s.id), 0)
RECURSIVE MaxId(_)
MaxId(list) == IF list = <<>> THEN 0 ELSE Max2(MaxId(Tail(list)), Head(list).id)

\* the new session of handleCreateSession
NewSession(list, t) == Session(MaxId(list) + 1, t, Null, <<>>)

\* prev.map(s => s.id === updatedSession.id ? updatedSession : s)
handleUpdateSession(list, updated) ==
    [k \in 1..Len(list) |-> IF list[k].id = updated.id THEN updated ELSE list[k]]

\* SessionDetail is mounted for the session: its useState and its effect
DetailMounts(session) ==
    /\ stage' = "INPUT_DICTATION"
    /\ currentAttemptId' = NullId
    /\ isEditingOriginal' = FALSE
    /\ dictationInput' = <<>>
    /\ originalInput' = IF Truthy(session.originalText) THEN session.originalText ELSE <<>>
    /\ errorMsg' = FALSE

\* [...sessions].sort((a, b) => a.id - b.id): the sort is stable
RECURSIVE InsertById(_, _)
InsertById(sorted, s) ==
    IF sorted = <<>> THEN <<s>>
    ELSE IF sorted[Len(sorted)].id <= s.id THEN Append(sorted, s)
    ELSE Append(InsertById(SubSeq(sorted, 1, Len(sorted) - 1), s), sorted[Len(sorted)])
RECURSIVE SortById(_)
SortById(list) ==
    IF list = <<>> THEN <<>>
    ELSE InsertById(SortById(SubSeq(list, 1, Len(list) - 1)), list[Len(list)])

ITEMS_PER_PAGE == 25

\* Math.ceil(sortedSessions.length / ITEMS_PER_PAGE) || 1
totalPages(list) ==
    LET pages == (Len(list) + ITEMS_PER_PAGE - 1) \div ITEMS_PER_PAGE
    IN  IF pages = 0 THEN 1 ELSE pages

\* sortedSessions.slice(startIndex, startIndex + ITEMS_PER_PAGE)
currentSessions ==
    LET sorted == SortById(sessions)
        startIndex == (page - 1) * ITEMS_PER_PAGE
    IN  SubSeq(sorted, startIndex + 1, Min2(startIndex + ITEMS_PER_PAGE, Len(sorted)))

\* New Dictation: handleCreateSession; Home is left for SessionDetail
HandleCreateSession ==
    /\ pc = "app"
    /\ currentView = "HOME"
    /\ Len(sessions) % ITEMS_PER_PAGE < MaxSessions
    /\ \E t \in Times :
         /\ sessions' = Append(sessions, NewSession(sessions, t))
         /\ activeSessionId' = NewSession(sessions, t).id
         /\ DetailMounts(NewSession(sessions, t))
    /\ storage' = persistSessions(storage, sessions')
    /\ currentView' = "SESSION"
    /\ page' = 1
    /\ handler' = [name |-> "handleCreateSession"]
    /\ UNCHANGED <<pc, properNouns, notes, startStorage, reader, engineVars>>

\* a click on a session of the grid: handleSelectSession(session.id)
HandleSelectSession ==
    /\ pc = "app"
    /\ currentView = "HOME"
    /\ \E k \in 1..Len(currentSessions) :
         /\ activeSessionId' = currentSessions[k].id
         /\ DetailMounts(sessions[FindIndex(sessions, currentSessions[k].id)])
    /\ currentView' = "SESSION"
    /\ page' = 1
    /\ handler' = [name |-> "handleSelectSession"]
    /\ UNCHANGED <<pc, properNouns, sessions, notes, storage, startStorage, reader, engineVars>>

\* the views unmount when currentView becomes HOME; Home keeps its state if it was mounted
BackToHome ==
    /\ currentView' = "HOME"
    /\ activeSessionId' = NoSession
    /\ stage' = "INPUT_DICTATION"
    /\ currentAttemptId' = NullId
    /\ isEditingOriginal' = FALSE
    /\ dictationInput' = <<>>
    /\ originalInput' = <<>>
    /\ errorMsg' = FALSE
    /\ page' = IF currentView = "HOME" THEN page ELSE 1

\* the arrow of SessionDetail and of NotesManager: handleBackToHome
HandleBackToHome ==
    /\ pc = "app"
    /\ currentView # "HOME"
    /\ BackToHome
    /\ handler' = [name |-> "handleBackToHome"]
    /\ UNCHANGED <<pc, properNouns, sessions, notes, storage, startStorage, reader, engineVars>>

\* Notes Manager: handleGoToNotes
HandleGoToNotes ==
    /\ pc = "app"
    /\ currentView = "HOME"
    /\ currentView' = "NOTES"
    /\ page' = 1
    /\ handler' = [name |-> "handleGoToNotes"]
    /\ UNCHANGED <<pc, properNouns, sessions, notes, storage, startStorage, activeSessionId,
                   reader, detailVars, engineVars>>

\* the modal's save: handleSaveNote(content, noteId).  noteId is the id of
\* the note the modal was opened on (from NotesManager; the modal stays open
\* when an import changes the view and the notes), none for a new note
HandleSaveNote ==
    /\ pc = "app"
    /\ \E content \in {"n1", "n2"} : \E t \in Times :
         \/ /\ Len(notes) < MaxNotes
            /\ \E id \in GeneratedIds \ {notes[k].id : k \in 1..Len(notes)} :
                 notes' = <<Note(id, content, t, t)>> \o notes
         \/ \E noteId \in GeneratedIds :
                 notes' = [k \in 1..Len(notes) |->
                              IF notes[k].id = noteId
                              THEN [notes[k] EXCEPT !.content = content, !.updatedAt = t]
                              ELSE notes[k]]
    /\ storage' = saveNotes(storage, notes')
    /\ handler' = [name |-> "handleSaveNote"]
    /\ UNCHANGED <<pc, properNouns, sessions, startStorage, currentView, activeSessionId,
                   reader, page, detailVars, engineVars>>

\* NotesManager: handleDeleteNote(id)
HandleDeleteNote ==
    /\ pc = "app"
    /\ currentView = "NOTES"
    /\ \E n \in 1..Len(notes) :
         notes' = SelectSeq(notes, LAMBDA x : x.id # notes[n].id)
    /\ storage' = saveNotes(storage, notes')
    /\ handler' = [name |-> "handleDeleteNote"]
    /\ UNCHANGED <<pc, properNouns, sessions, startStorage, currentView, activeSessionId,
                   reader, page, detailVars, engineVars>>

---------------------------------------------------------------------------
(* App: the import of a backup file.  handleFileChange starts a FileReader  *)
(* and returns; reader.onload runs later, as an event of its own, with the  *)
(* properNouns and notes of the render handleFileChange was called in.  A   *)
(* file is the text of no JSON value, or a JSON value: an array, or a value *)
(* with or without the fields sessions, properNouns and notes.  A field is  *)
(* absent or falsy, an array, or another truthy value.                      *)

\* a truthy JSON value that is no array: an object, a string, a number
NotAnArray == [kind |-> "no array"]

NoField == [truthy |-> FALSE, isArray |-> FALSE, list |-> <<>>]
ArrayField(list) == [truthy |-> TRUE, isArray |-> TRUE, list |-> list]
OtherField == [truthy |-> TRUE, isArray |-> FALSE, list |-> NotAnArray]

NoJson == [parses |-> FALSE, array |-> NoField, sessions |-> NoField,
           properNouns |-> NoField, notes |-> NoField]
ArrayFile(list) == [NoJson EXCEPT !.parses = TRUE, !.array = ArrayField(list)]
ObjectFile(s, p, n) ==
    [parses |-> TRUE, array |-> NoField, sessions |-> s, properNouns |-> p, notes |-> n]

\* the try block of reader.onload up to window.confirm: the three values to
\* import, or ok = FALSE when JSON.parse or the code throws.  The field
\* sessions of an object is taken as it is, an array or not.
ImportedLists(file, nouns, nts) ==
    IF ~file.parses THEN [ok |-> FALSE, sessions |-> <<>>, properNouns |-> <<>>, notes |-> <<>>]
    ELSE IF file.array.isArray
    THEN [ok |-> TRUE, sessions |-> file.array.list, properNouns |-> nouns, notes |-> nts]
    ELSE IF file.sessions.truthy /\ ~file.notes.truthy
    THEN [ok |-> TRUE, sessions |-> file.sessions.list,
          properNouns |-> IF file.properNouns.isArray THEN file.properNouns.list ELSE <<>>,
          notes |-> nts]
    ELSE IF file.sessions.truthy /\ file.notes.truthy
    THEN [ok |-> TRUE, sessions |-> file.sessions.list,
          properNouns |-> IF file.properNouns.isArray THEN file.properNouns.list ELSE <<>>,
          notes |-> IF file.notes.isArray THEN file.notes.list ELSE <<>>]
    ELSE [ok |-> FALSE, sessions |-> <<>>, properNouns |-> <<>>, notes |-> <<>>]

\* the file input of the header (shown on HOME): handleFileChange with one of
\* the files of the sequence files
HandleFileChange(files) ==
    /\ pc = "app"
    /\ currentView = "HOME"
    /\ ~reader.pending
    /\ \E k \in 1..Len(files) :
         reader' = [pending |-> TRUE, file |-> files[k], properNouns |-> properNouns,
                    notes |-> notes]
    /\ handler' = [name |-> "handleFileChange"]
    /\ UNCHANGED <<pc, properNouns, sessions, notes, storage, startStorage, currentView,
                   activeSessionId, page, detailVars, engineVars>>

\* reader.onload, with the answer given to window.confirm.  When the sessions
\* imported are no array, the next render of App throws at sessions.find and
\* React takes the application off the page.
ReaderOnload ==
    /\ pc = "app"
    /\ reader.pending
    /\ LET new == ImportedLists(reader.file, reader.properNouns, reader.notes)
           renders == reader.file.array.isArray \/ reader.file.sessions.isArray
       IN  \E answer \in BOOLEAN :
             IF new.ok /\ answer
             THEN /\ sessions' = new.sessions
                  /\ properNouns' = new.properNouns
                  /\ notes' = new.notes
                  /\ storage' = saveNotes(saveProperNouns(saveSessions(storage, new.sessions),
                                                          new.properNouns), new.notes)
                  /\ BackToHome
                  /\ pc' = IF renders THEN pc ELSE "crashed"
                  /\ handler' = [name |-> "onload", outcome |-> "imported"]
             ELSE /\ handler' = [name |-> "onload",
                                 outcome |-> IF new.ok THEN "declined" ELSE "failed"]
                  /\ UNCHANGED <<pc, properNouns, sessions, notes, storage, currentView,
                                 activeSessionId, page, detailVars>>
    /\ reader' = NoReader
    /\ UNCHANGED <<startStorage, engineVars>>

---------------------------------------------------------------------------
(* SessionDetail: the handlers of its three stages.  session is the active  *)
(* session of the last render.                                              *)

\* the card of the stage INPUT_DICTATION is rendered
DictationCard == pc = "app" /\ currentView = "SESSION" /\ HasActiveSession /\ stage = "INPUT_DICTATION"

\* the card with the original text is rendered
OriginalCard ==
    /\ pc = "app"
    /\ currentView = "SESSION"
    /\ HasActiveSession
    /\ IF stage = "INPUT_ORIGINAL" THEN TRUE ELSE isEditingOriginal /\ stage # "INPUT_DICTATION"

\* const currentReviewAttempt = session.attempts.find(a => a.id === currentAttemptId)
HasReviewAttempt == \E k \in 1..Len(ActiveSession.attempts) : ActiveSession.attempts[k].id = currentAttemptId
currentReviewAttempt == ActiveSession.attempts[FindIndex(ActiveSession.attempts, currentAttemptId)]

\* the card of the stage REVIEW is rendered, DiffViewer in it (pc is
\* "scored" where the calculation of the viewer is followed)
ReviewCard ==
    /\ pc \in {"app", "scored"}
    /\ currentView = "SESSION"
    /\ HasActiveSession
    /\ stage = "REVIEW"
    /\ ~isEditingOriginal
    /\ HasReviewAttempt

\* onChange of the two text areas
TypeDictation(texts) ==
    /\ DictationCard
    /\ dictationInput' \in texts
    /\ handler' = [name |-> "setDictationInput"]
    /\ UNCHANGED <<pc, properNouns, sessions, notes, storage, startStorage, currentView,
                   activeSessionId, reader, page, stage, currentAttemptId, isEditingOriginal,
                   originalInput, errorMsg, engineVars>>

TypeOriginal(texts) ==
    /\ OriginalCard
    /\ originalInput' \in texts
    /\ handler' = [name |-> "setOriginalInput"]
    /\ UNCHANGED <<pc, properNouns, sessions, notes, storage, startStorage, currentView,
                   activeSessionId, reader, page, stage, currentAttemptId, isEditingOriginal,
                   dictationInput, errorMsg, engineVars>>

\* the number of attempts of all the sessions of list
RECURSIVE AttemptCount(_)
AttemptCount(list) ==
    IF list = <<>> THEN 0 ELSE Len(Head(list).attempts) + AttemptCount(Tail(list))

\* the render after a handler of SessionDetail.  Where the calculation of
\* the viewer is followed and the render mounts DiffViewer (the review card
\* with a session.originalText that is truthy), its useMemo calls
\* calculateDiff(userText, originalText, properNouns), or gives [] when one of
\* the texts is empty
DiffViewerMounts(followed, mounts, user, original) ==
    IF followed /\ mounts
    THEN /\ userText' = user
         /\ originalText' = original
         /\ IF user = <<>> \/ original = <<>>
            THEN /\ diffs' = <<>>
                 /\ accuracy' = calculateAccuracy(<<>>)
                 /\ pc' = "scored"
            ELSE /\ pc' = "call"
                 /\ UNCHANGED <<diffs, accuracy>>
         /\ UNCHANGED <<userWords, originalWords, dp, i, j, rawParts, branch, word, clean,
                        inputText, tokens, registered, calls>>
    ELSE UNCHANGED <<pc, engineVars>>

\* the stage handleSaveDictation goes to
StageAfterDictationReview(session) == "REVIEW"
StageAfterDictation(session) ==
    IF ~Truthy(session.originalText) THEN "INPUT_ORIGINAL" ELSE "REVIEW"

\* Save Dictation: handleSaveDictation (the button is disabled for a blank
\* input, so the first branch is not taken from the page)
HandleSaveDictation(followed) ==
    /\ DictationCard
    /\ IF Trim(dictationInput) = <<>>
       THEN /\ errorMsg' = TRUE
            /\ UNCHANGED <<sessions, storage, currentAttemptId, dictationInput, stage>>
            /\ UNCHANGED <<pc, engineVars>>
       ELSE /\ AttemptCount(sessions) < MaxAttempts
            /\ followed => Len(calls) < MaxCalls
            /\ DiffViewerMounts(followed, StageAfterDictation(ActiveSession) = "REVIEW",
                                Trim(dictationInput), ActiveSession.originalText)
            /\ \E t \in Times :
               \E id \in GeneratedIds \ {ActiveSession.attempts[k].id : k \in 1..Len(ActiveSession.attempts)} :
                 /\ sessions' = handleUpdateSession(sessions,
                        [ActiveSession EXCEPT
                            !.attempts = Append(@, Attempt(id, t, Trim(dictationInput)))])
                 /\ currentAttemptId' = id
            /\ storage' = persistSessions(storage, sessions')
            /\ errorMsg' = FALSE
            /\ dictationInput' = <<>>
            /\ stage' = StageAfterDictation(ActiveSession)
    /\ handler' = [name |-> "handleSaveDictation"]
    /\ UNCHANGED <<properNouns, notes, startStorage, currentView, activeSessionId, reader,
                   page, isEditingOriginal, originalInput>>

\* Save Original & Compare, Save Changes: handleSaveOriginal
HandleSaveOriginal(followed) ==
    /\ OriginalCard
    /\ IF Trim(originalInput) = <<>>
       THEN /\ errorMsg' = TRUE
            /\ UNCHANGED <<sessions, storage, isEditingOriginal, stage>>
            /\ UNCHANGED <<pc, engineVars>>
       ELSE /\ followed => Len(calls) < MaxCalls
            /\ DiffViewerMounts(followed, HasReviewAttempt,
                                IF HasReviewAttempt THEN currentReviewAttempt.userText ELSE <<>>,
                                Trim(originalInput))
            /\ sessions' = handleUpdateSession(sessions,
                               [ActiveSession EXCEPT !.originalText = Trim(originalInput)])
            /\ storage' = persistSessions(storage, sessions')
            /\ errorMsg' = FALSE
            /\ isEditingOriginal' = FALSE
            /\ stage' = "REVIEW"
    /\ handler' = [name |-> "handleSaveOriginal"]
    /\ UNCHANGED <<properNouns, notes, startStorage, currentView, activeSessionId, reader,
                   page, currentAttemptId, dictationInput, originalInput>>

\* Edit Original: handleEditOriginal; the review card, and DiffViewer with
\* it, leaves the page
HandleEditOriginal ==
    /\ ReviewCard
    /\ isEditingOriginal' = TRUE
    /\ pc' = "app"
    /\ handler' = [name |-> "handleEditOriginal"]
    /\ UNCHANGED <<properNouns, sessions, notes, storage, startStorage, currentView,
                   activeSessionId, reader, page, stage, currentAttemptId, dictationInput,
                   originalInput, errorMsg, engineVars>>

\* Cancel: () => setIsEditingOriginal(false); the review card is back on
\* the page
CancelEditOriginal(followed) ==
    /\ OriginalCard
    /\ isEditingOriginal
    /\ followed => Len(calls) < MaxCalls
    /\ isEditingOriginal' = FALSE
    /\ DiffViewerMounts(followed,
                        stage = "REVIEW" /\ HasReviewAttempt /\ Truthy(ActiveSession.originalText),
                        IF HasReviewAttempt THEN currentReviewAttempt.userText ELSE <<>>,
                        ActiveSession.originalText)
    /\ handler' = [name |-> "cancel"]
    /\ UNCHANGED <<properNouns, sessions, notes, storage, startStorage, currentView,
                   activeSessionId, reader, page, stage, currentAttemptId, dictationInput,
                   originalInput, errorMsg>>

\* New Attempt: handleRetry; the review card, and DiffViewer with it, leaves
\* the page
HandleRetry ==
    /\ ReviewCard
    /\ stage' = "INPUT_DICTATION"
    /\ currentAttemptId' = NullId
    /\ dictationInput' = <<>>
    /\ errorMsg' = FALSE
    /\ pc' = "app"
    /\ handler' = [name |-> "handleRetry"]
    /\ UNCHANGED <<properNouns, sessions, notes, storage, startStorage, currentView,
                   activeSessionId, reader, page, isEditingOriginal, originalInput, engineVars>>

---------------------------------------------------------------------------
(* DiffViewer on the page of SessionDetail.  The session has an attempt and *)
(* an original text and is in review; the handlers of SessionDetail take    *)
(* the viewer off the page and mount it again, for another original text,   *)
(* another attempt or the same texts.                                       *)

InitViewer ==
    /\ pc = "call"
    /\ \E pair \in ViewerPairs :
         /\ userText = pair[1]
         /\ originalText = pair[2]
         /\ sessions = <<Session(1, 2, pair[2], <<Attempt("g1", 2, pair[1])>>)>>
         /\ originalInput = pair[2]
    /\ properNouns = <<>>
    /\ userWords = <<>>
    /\ originalWords = <<>>
    /\ dp = <<>>
    /\ i = 0
    /\ j = 0
    /\ rawParts = <<>>
    /\ branch = "none"
    /\ diffs = <<>>
    /\ accuracy = 0
    /\ word = <<>>
    /\ clean = <<>>
    /\ inputText = <<>>
    /\ tokens = <<>>
    /\ registered = <<>>
    /\ calls = <<>>
    /\ notes = <<>>
    /\ startStorage = EmptyStorage
    /\ storage = saveNotes(saveProperNouns(saveSessions(EmptyStorage, sessions), properNouns), notes)
    /\ currentView = "SESSION"
    /\ activeSessionId = 1
    /\ reader = NoReader
    /\ handler = NoHandler
    /\ stage = "REVIEW"
    /\ currentAttemptId = "g1"
    /\ isEditingOriginal = FALSE
    /\ dictationInput = <<>>
    /\ errorMsg = FALSE
    /\ page = 1

NextViewer ==
    \/ Fill \/ BacktrackMatch \/ BacktrackRemove \/ BacktrackAdd \/ Return \/ Score
    \/ AddProperNounClick
    \/ TypeDictation({pair[1] : pair \in ViewerPairs})
    \/ TypeOriginal({pair[2] : pair \in ViewerPairs})
    \/ HandleSaveDictation(TRUE) \/ HandleSaveOriginal(TRUE)
    \/ HandleEditOriginal \/ CancelEditOriginal(TRUE) \/ HandleRetry

SpecViewer == InitViewer /\ [][NextViewer]_vars

---------------------------------------------------------------------------
(* The application with its sessions: the grid of Home, SessionDetail and   *)
(* the import of backup files.                                              *)

\* the backup files chosen: no JSON; an array with two sessions of the same id
SessionFiles ==
    << NoJson,
      ArrayFile(<<Session(1, 1, Null, <<>>), Session(1, 2, TextB, <<>>)>>) >>

InitSessions ==
    \E s \in {Absent, Json(<<Session(1, 1, Null, <<>>)>>)} :
        AppMounted([sessions |-> s, properNouns |-> Absent, notes |-> Absent])

NextSessions ==
    \/ MountEffect \/ PersistSessionsEffect \/ PersistProperNounsEffect \/ PersistNotesEffect
    \/ HandleCreateSession \/ HandleSelectSession \/ HandleBackToHome
    \/ HandleFileChange(SessionFiles) \/ ReaderOnload
    \/ TypeDictation({<<" ">>, <<" ", "a", "\n">>})
    \/ TypeOriginal({<<" ">>, <<"b", " ">>})
    \/ HandleSaveDictation(FALSE) \/ HandleSaveOriginal(FALSE)
    \/ HandleEditOriginal \/ CancelEditOriginal(FALSE) \/ HandleRetry

SpecSessions == InitSessions /\ [][NextSessions]_vars

---------------------------------------------------------------------------
(* The application with its notes and the import of backup files of every   *)
(* shape.                                                                   *)

\* the backup files chosen: no JSON; JSON of none of the shapes; arrays (v1);
\* objects with sessions (v2), one whose properNouns is no array and one
\* whose sessions is no array; an object with sessions and notes (v3)
ImportFiles ==
    << NoJson,
      ObjectFile(NoField, ArrayField(<<KeyJohn>>), ArrayField(<<>>)),
      ArrayFile(<<>>),
      ArrayFile(<<Session(3, 1, TextB, <<>>)>>),
      ObjectFile(ArrayField(<<Session(3, 1, TextB, <<>>)>>), ArrayField(<<KeyJohn>>), NoField),
      ObjectFile(ArrayField(<<>>), OtherField, NoField),
      ObjectFile(OtherField, ArrayField(<<KeyJohn>>), NoField),
      ObjectFile(ArrayField(<<>>), NoField, ArrayField(<<Note("g3", "n1", 1, 1)>>)) >>

InitImport ==
    \E s \in {Absent, Json(<<Session(1, 1, Null, <<>>)>>)} :
    \E n \in {Absent, Json(<<Note("g1", "n1", 1, 1)>>)} :
        AppMounted([sessions |-> s, properNouns |-> Json(<<KeyJon>>), notes |-> n])

NextImport ==
    \/ MountEffect \/ PersistSessionsEffect \/ PersistProperNounsEffect \/ PersistNotesEffect
    \/ HandleGoToNotes \/ HandleBackToHome \/ HandleSaveNote \/ HandleDeleteNote
    \/ HandleFileChange(ImportFiles) \/ ReaderOnload

SpecImport == InitImport /\ [][NextImport]_vars

---------------------------------------------------------------------------
\* no two sessions of list have the same id
UniqueIds(list) == \A k, l \in 1..Len(list) : list[k].id = list[l].id => k = l

\* the handler of the step has called onUpdateSession
UpdatesSession ==
    \/ handler'.name = "handleSaveDictation" /\ Trim(dictationInput) # <<>>
    \/ handler'.name = "handleSaveOriginal" /\ Trim(originalInput) # <<>>

\* C25: session ids stay unique.  After every step of creating, updating and
\* importing, no two sessions of the list have the same id; a session created
\* has the id max(ids) + 1, or 1 in an empty list; and handleUpdateSession
\* replaces the active session and no other.
C25_SessionIdsUnique ==
    [][ /\ UniqueIds(sessions')
        /\ handler'.name = "handleCreateSession" =>
               /\ Len(sessions') = Len(sessions) + 1
               /\ sessions'[Len(sessions')].id =
                      (IF sessions = <<>> THEN 1
                       ELSE 1 + CHOOSE m \in {sessions[k].id : k \in 1..Len(sessions)} :
                                    \A k \in 1..Len(sessions) : sessions[k].id <= m)
               /\ \A k \in 1..Len(sessions) : sessions'[k] = sessions[k]
        /\ UpdatesSession =>
               /\ Len(sessions') = Len(sessions)
               /\ \A k \in 1..Len(sessions) :
                      k # FindIndex(sessions, activeSessionId) => sessions'[k] = sessions[k]
      ]_vars

\* the parts of C25 about handleCreateSession and about the unique ids kept
\* by creating and updating
C25_CreateAndUpdateKeepUnique ==
    [][ /\ handler'.name = "handleCreateSession" =>
               /\ sessions'[Len(sessions')].id =
                      (IF sessions = <<>> THEN 1
                       ELSE 1 + CHOOSE m \in {sessions[k].id : k \in 1..Len(sessions)} :
                                    \A k \in 1..Len(sessions) : sessions[k].id <= m)
               /\ \A k \in 1..Len(sessions) : sessions'[k] = sessions[k]
        /\ (handler'.name # "onload" /\ UniqueIds(sessions)) => UniqueIds(sessions')
      ]_vars

---------------------------------------------------------------------------
\* C26: a failed or declined import changes nothing, and an import of an
\* array keeps the proper nouns and notes.  When reader.onload ends without
\* importing (no JSON, none of the shapes, or the confirmation declined) the
\* sessions, proper nouns and notes in state and in storage are the ones
\* before it; when it imports an array, the sessions become the array and the
\* proper nouns and notes, in state and in storage, stay the current ones.
C26_ImportKeepsData ==
    [][ handler'.name = "onload" =>
          IF handler'.outcome # "imported"
          THEN UNCHANGED <<sessions, properNouns, notes, storage>>
          ELSE reader.file.array.isArray =>
                  /\ sessions' = reader.file.array.list
                  /\ Loaded(storage').sessions = reader.file.array.list
                  /\ properNouns' = properNouns
                  /\ notes' = notes
                  /\ Loaded(storage').properNouns = Loaded(storage).properNouns
                  /\ Loaded(storage').notes = Loaded(storage).notes
      ]_vars

\* the part of C26 about the import that fails or is declined, and the import
\* of an array when no handler has run since the file was chosen
C26_FailedImportChangesNothing ==
    [][ handler'.name = "onload" =>
          IF handler'.outcome # "imported"
          THEN UNCHANGED <<sessions, properNouns, notes, storage>>
          ELSE (reader.file.array.isArray /\ handler.name = "handleFileChange") =>
                  /\ sessions' = reader.file.array.list
                  /\ properNouns' = properNouns
                  /\ notes' = notes
                  /\ Loaded(storage').properNouns = Loaded(storage).properNouns
                  /\ Loaded(storage').notes = Loaded(storage).notes
      ]_vars

---------------------------------------------------------------------------
\* the session the handlers of SessionDetail work on, before and after a step
SessionBefore == sessions[FindIndex(sessions, activeSessionId)]
SessionAfter == sessions'[FindIndex(sessions, activeSessionId)]

\* every session but the one SessionDetail shows is as it was
OthersUnchanged ==
    /\ Len(sessions') = Len(sessions)
    /\ \A k \in 1..Len(sessions) :
           k # FindIndex(sessions, activeSessionId) => sessions'[k] = sessions[k]

\* C28: the attempt history is append-only.  handleSaveDictation with an input
\* that is not blank appends one attempt with the trimmed text to the attempts
\* of the session and changes nothing else of it nor any other session; with a
\* blank input it sets the error message and changes no session;
\* handleSaveOriginal changes the originalText only, never to an empty text
\* or null.
C28_AttemptsAppendOnly ==
    [][ /\ handler'.name = "handleSaveDictation" =>
             IF Trim(dictationInput) # <<>>
             THEN /\ Len(SessionAfter.attempts) = Len(SessionBefore.attempts) + 1
                  /\ SubSeq(SessionAfter.attempts, 1, Len(SessionBefore.attempts))
                         = SessionBefore.attempts
                  /\ SessionAfter.attempts[Len(SessionAfter.attempts)].userText
                         = Trim(dictationInput)
                  /\ SessionAfter.id = SessionBefore.id
                  /\ SessionAfter.createdAt = SessionBefore.createdAt
                  /\ SessionAfter.originalText = SessionBefore.originalText
                  /\ OthersUnchanged
             ELSE /\ errorMsg'
                  /\ sessions' = sessions
        /\ handler'.name = "handleSaveOriginal" =>
             /\ OthersUnchanged
             /\ SessionAfter = [SessionBefore EXCEPT !.originalText = SessionAfter.originalText]
             /\ sessions' # sessions => Truthy(SessionAfter.originalText)
      ]_vars

\* C28 without the sessions other than the one shown
C28_ShownSessionAppendOnly ==
    [][ /\ handler'.name = "handleSaveDictation" =>
             IF Trim(dictationInput) # <<>>
             THEN SessionAfter = [SessionBefore EXCEPT !.attempts =
                      Append(@, [SessionAfter.attempts[Len(SessionAfter.attempts)]
                                     EXCEPT !.userText = Trim(dictationInput)])]
             ELSE errorMsg' /\ sessions' = sessions
        /\ handler'.name = "handleSaveOriginal" =>
             /\ SessionAfter = [SessionBefore EXCEPT !.originalText = SessionAfter.originalText]
             /\ sessions' # sessions => Truthy(SessionAfter.originalText)
        /\ (handler'.name \in {"handleSaveDictation", "handleSaveOriginal"} /\ UniqueIds(sessions))
               => OthersUnchanged
      ]_vars

---------------------------------------------------------------------------
\* SessionDetail is on the page
DetailShown == pc = "app" /\ currentView = "SESSION" /\ HasActiveSession

\* when the stage is REVIEW the session has a non-empty originalText and
\* currentAttemptId is the id of an attempt of the session, the last one
ReviewHasOriginalAndAttempt ==
    (DetailShown /\ stage = "REVIEW") =>
        /\ Truthy(ActiveSession.originalText)
        /\ HasReviewAttempt
        /\ currentReviewAttempt = ActiveSession.attempts[Len(ActiveSession.attempts)]

\* a review reached by saving the original text after the first dictation
C29_Witness ==
    /\ ReviewCard
    /\ handler.name = "handleSaveOriginal"
    /\ Len(ActiveSession.attempts) = 1
    /\ currentReviewAttempt.userText = <<"a">>
    /\ ActiveSession.originalText = <<"b">>

\* C29: in every state of SessionDetail reached by its handlers, when the
\* stage is REVIEW the session has a non-empty originalText and
\* currentAttemptId is the id of an attempt of the session, the one saved
\* last, for which the comparison is rendered; and the stage INPUT_ORIGINAL
\* is entered only when the session has no originalText and has at least one
\* attempt.
C29_StagesWellFormed ==
    /\ []ReviewHasOriginalAndAttempt
    /\ [][ (stage # "INPUT_ORIGINAL" /\ stage' = "INPUT_ORIGINAL") =>
                /\ DetailShown'
                /\ ~Truthy(SessionAfter.originalText)
                /\ Len(SessionAfter.attempts) >= 1
          ]_vars

---------------------------------------------------------------------------
(* Home: the pages of the grid.  Home keeps its page while the view stays   *)
(* HOME, an import included, and starts at page 1 when it is mounted again. *)

\* parseInt(string) without a radix: white space is skipped, then an
\* optional sign is read, then 0x or 0X and the longest run of hexadecimal
\* digits, or else the longest run of decimal digits; isNaN when no digit
\* is read
parseInt(string) ==
    LET HexChars == DigitChars \o <<"a", "b", "c", "d", "e", "f">>
        trimmed == TrimStart(string)
        signed == trimmed # <<>> /\ Head(trimmed) \in {"-", "+"}
        unsigned == IF signed THEN Tail(trimmed) ELSE trimmed
        hex == IF Len(unsigned) >= 2
               THEN unsigned[1] = "0" /\ unsigned[2] \in {"x", "X"}
               ELSE FALSE
        radix == IF hex THEN 16 ELSE 10
        body == IF hex THEN SubSeq(unsigned, 3, Len(unsigned)) ELSE unsigned
        IsDigit(c) == \E d \in 1..radix : HexChars[d] = ToLowerChar(c)
        DigitValue(c) == (CHOOSE d \in 1..radix : HexChars[d] = ToLowerChar(c)) - 1
        RECURSIVE DigitCount(_)
        DigitCount(s) == IF s # <<>> /\ IsDigit(Head(s)) THEN 1 + DigitCount(Tail(s)) ELSE 0
        RECURSIVE Value(_)
        Value(n) == IF n = 0 THEN 0 ELSE radix * Value(n - 1) + DigitValue(body[n])
        magnitude == Value(DigitCount(body))
    IN  [isNaN |-> DigitCount(body) = 0,
         value |-> IF signed /\ Head(trimmed) = "-" THEN 0 - magnitude ELSE magnitude]

\* handlePageChange(newPage): the page after it
handlePageChange(newPage) ==
    IF newPage >= 1 /\ newPage <= totalPages(sessions) THEN newPage ELSE page

\* the buttons of the previous and of the next page, disabled on page 1 and on
\* the last page
PageButtonClick ==
    /\ pc = "app"
    /\ currentView = "HOME"
    /\ \/ page # 1 /\ page' = handlePageChange(page - 1)
       \/ page # totalPages(sessions) /\ page' = handlePageChange(page + 1)
    /\ handler' = [name |-> "handlePageChange"]
    /\ UNCHANGED <<pc, properNouns, sessions, notes, storage, startStorage, currentView,
                   activeSessionId, reader, detailVars, engineVars>>

\* the texts typed into the field of the page to jump to
JumpInputs ==
    {<<>>, <<"0">>, <<"1">>, <<"2">>, <<"3">>, <<"-", "1">>, <<"2", ".", "5">>, <<"e">>,
     <<"\r", "0", "X", "2">>, <<"0", "x">>}

\* the form of the jump: handleJumpToPage with the text of the field, which
\* it clears (the handler is run on every text, also on one the browser would
\* refuse for the min and max of the field)
HandleJumpToPage ==
    /\ pc = "app"
    /\ currentView = "HOME"
    /\ \E jumpPageInput \in JumpInputs :
         LET p == parseInt(jumpPageInput)
         IN  /\ page' = IF ~p.isNaN THEN handlePageChange(p.value) ELSE page
             /\ handler' = [name |-> "handleJumpToPage", p |-> p]
    /\ UNCHANGED <<pc, properNouns, sessions, notes, storage, startStorage, currentView,
                   activeSessionId, reader, detailVars, engineVars>>

\* count sessions with the ids 1..count
SessionsUpTo(count) == [k \in 1..count |-> Session(k, 1, Null, <<>>)]

\* the application with a grid of one page or of two, and backup files with
\* one session and with more than a page of sessions
InitHome ==
    \E count \in {ITEMS_PER_PAGE, ITEMS_PER_PAGE + 1} :
        AppMounted([sessions |-> Json(SessionsUpTo(count)), properNouns |-> Absent, notes |-> Absent])

NextHome ==
    \/ MountEffect \/ PersistSessionsEffect \/ PersistProperNounsEffect \/ PersistNotesEffect
    \/ HandleCreateSession \/ HandleSelectSession \/ HandleBackToHome
    \/ PageButtonClick \/ HandleJumpToPage
    \/ HandleFileChange(<<NoJson, ArrayFile(SessionsUpTo(1)), ArrayFile(SessionsUpTo(ITEMS_PER_PAGE + 2))>>)
    \/ ReaderOnload

SpecHome == InitHome /\ [][NextHome]_vars

\* C30: the page of the grid is always one of its pages, 1 <= page <= totalPages
\* with totalPages = max(1, ceil(sessions / 25)), in every state reached by
\* page changes, jumps, session creation and import; and a page change to a
\* target outside 1..totalPages leaves the page as it is.
C30_PageWithinRange ==
    /\ [](pc = "app" => (1 <= page /\ page <= totalPages(sessions)))
    /\ [][ (handler'.name = "handleJumpToPage" /\ ~handler'.p.isNaN) =>
               page' = IF handler'.p.value \in 1..totalPages(sessions)
                       THEN handler'.p.value ELSE page
         ]_vars

\* the parts of C30 that do not involve an import: a page change or a jump
\* ends on a page of the grid if it started on one and ignores a target
\* outside the range, and Home starts on page 1
C30_PageChangesStayInRange ==
    [][ /\ (handler'.name = "handleJumpToPage" /\ ~handler'.p.isNaN) =>
               page' = IF handler'.p.value \in 1..totalPages(sessions)
                       THEN handler'.p.value ELSE page
        /\ handler'.name = "handleJumpToPage" /\ handler'.p.isNaN => page' = page
        /\ (handler'.name # "onload" /\ page \in 1..totalPages(sessions))
               => page' \in 1..totalPages(sessions')
      ]_vars

====
